---- MODULE Spec2Model ----
(***************************************************************************)
(* Model of the dual GoPro record-and-fetch controller.                    *)
(*                                                                         *)
(* Two revisions of the program are modelled side by side, selected by     *)
(* the variable `variant`:                                                 *)
(*   "v4"  src/record_and_fetch_dual_v4.py  (simplified, smart BLE retry)  *)
(*   "v3"  src/record_and_fetch_dual_v3.py  (integrated connection manager)*)
(*                                                                         *)
(* SpecConn : one device connection procedure at a time                    *)
(*            (connect_single_gopro and everything it calls).              *)
(* SpecJob  : capture jobs (record_and_fetch_all), the combination queue   *)
(*            and its background worker.                                   *)
(***************************************************************************)
EXTENDS Integers, Sequences, FiniteSets, TLC

VARIABLES
    variant,                \* which revision of the program runs
    httpUp,                 \* per device: it answers GET /gp/gpControl/status with 200
    \* ---- connection procedure (one call of connect_single_gopro) ----
    cdev,                   \* device of the current call, "none" outside a call
    ifaceFound,             \* "ip link show <interface>" of the current call succeeded
    cpc,                    \* position inside connect_single_gopro
    calls,                  \* calls started so far
    upAtCall,               \* httpUp[cdev] when the call started
    envChanged,             \* the device's reachability changed by itself during the call
    probeAttempt,           \* loop index of test_gopro_connection
    attempt,                \* loop index of activate_gopro_wifi
    bluetooth_reset_count,  \* local counter of activate_gopro_wifi
    waits,                  \* wait applied before each activation attempt (in 1/Scale s)
    resetCalls,             \* invocations of reset_bluetooth_smart / reset_bluetooth
    bleCalls,               \* BLE "wifi on" commands issued (primary and alternate)
    netCmds,                \* network association commands issued
    probes,                 \* HTTP status probes issued
    firstProbes,            \* status probes made by the fast-path check of the current call
    probe200,               \* some probe of this call came back success with "200"
    ssidSeen,               \* a scan of the current activation saw the device's SSID
    softFail,               \* the last activation round: command exit 0, no broadcast found
    exhausted,              \* which stage ran out of attempts ("none" if none did)
    cresult,                \* "none" | "true" | "false" | "raised"
    \* ---- capture job (one call of record_and_fetch_all) ----
    jpc,                    \* "idle" | "record" | "download" | "done" | "aborted"
    jobs,                   \* capture jobs started so far; the current job's number
    status,                 \* what check_all_connected returned at the job's start
    rec,                    \* per device: state of its record_video task
    dl,                     \* per device: state of its download task
    downloaded_files,       \* keys of the dict downloaded_files
    shutterCmds,            \* shutter commands issued in the current job
    dlCmds,                 \* media transfers started in the current job
    combSpace,              \* v3: outcome of the free-space check before queueing
    enq,                    \* combination jobs queued by the current job
    dlinfo,                 \* per device: what its download task did
    recording_time,         \* datetime.now() read at the job's start (0 outside a job)
    lastTask,               \* the task the current job put on the queue
    \* ---- combination queue and its worker ----
    queue,                  \* combination_queue, oldest first
    enqueued,               \* every job ever put on the queue, in put order
    wpc,                    \* worker: "get" (waiting on the queue) | "combine"
    wjob,                   \* job the worker took last
    tried,                  \* merge methods attempted for wjob, with their outcome
    wfile,                  \* what is at wjob's output path: "absent" | "partial" | "complete"
    wwriter,                \* index of the merge method that wrote it, 0 if none
    wresult,                \* what combine_videos returned for wjob: "none" | "ok" | "failed"
    started,                \* jobs the worker began, in order
    finished,               \* jobs the worker completed (task_done), in order
    \* ---- main: the trigger loop ----
    mpc,                    \* "poll" | "reconnect" | "connecting" | "capture" | "capturing" | "terminated"
    pending,                \* devices main still has to connect for the current trigger
    results,                \* conjunction of the connect results of the current trigger
    triggers,               \* triggers detected so far
    \* ---- main: the KeyboardInterrupt handler ----
    sdpc,                   \* "run" | "wait" | "stop" | "join" | "exited"
    obsEmpty,               \* the handler saw qsize() == 0 when it stopped waiting
    obsElapsed,             \* the handler saw the 60 s of its wait elapsed
    forced,                 \* a second interrupt ended the wait
    sentinelPut,            \* the stop signal (None) was put on the queue
    \* ---- cameras and the first dual-camera revision ----
    latest,                 \* per device: name of the newest clip on the camera
    v2path,                 \* per device: path written by download_latest_clip
    \* ---- the two-camera revision (record_and_fetch_2_cams.py) ----
    kpc,                    \* "idle" | "start" | "stop" | "fetch1" | "fetch2"
    kjobs,                  \* calls of its record_and_fetch so far
    trig,                   \* per interface: the shutter commands sent in the current call
    clips,                  \* per interface: outcome of fetch_latest_clip in the current call
    \* ---- the credential profiles (wpa_supplicant_<interface>.conf) ----
    wpa_conf,               \* per device: what the profile of its interface holds
    runs,                   \* per device: executions of the profile step so far
    raisedRun,              \* per device: the last execution ended with an exception
    \* ---- the activation loop, looked at round by round ----
    lastRound,              \* what the commands of the last activation round returned
    \* ---- the kernel's routing table ----
    routes                  \* the host routes, each a destination and a device

connVars == <<cdev, ifaceFound, cpc, calls, upAtCall, envChanged, probeAttempt, attempt,
              bluetooth_reset_count, waits, resetCalls, bleCalls, netCmds,
              probes, firstProbes, probe200, ssidSeen, softFail, exhausted, cresult>>

\* What the download tasks of the current job leave behind.
fetchVars == <<dlinfo, recording_time, lastTask>>

jobVars == <<jpc, jobs, status, rec, dl, downloaded_files, shutterCmds, dlCmds, combSpace, enq,
             fetchVars>>

workerVars == <<queue, enqueued, wpc, wjob, tried, wfile, wwriter, wresult, started, finished>>

mainVars == <<mpc, pending, results, triggers>>

stopVars == <<sdpc, obsEmpty, obsElapsed, forced, sentinelPut>>

twoCamVars == <<kpc, kjobs, trig, clips>>

profVars == <<wpa_conf, runs, raisedRun>>

camVars == <<latest, v2path, twoCamVars, profVars, lastRound, routes>>

vars == <<variant, httpUp, connVars, jobVars, workerVars, mainVars, stopVars, camVars>>

---------------------------------------------------------------------------
(* Configuration *)

\* GOPROS.keys(): the two configured devices.
GOPROS == {"gopro3", "gopro1"}

Variants == {"v3", "v4"}

\* activate_gopro_wifi(gopro_id, max_attempts=5)
max_attempts == 5
\* base_delay = 3
base_delay == 3
\* min(..., 15): the cap of the computed backoff, in seconds
DelayCap == 15
\* time.sleep(8): initial wait for BLE advertising, in seconds
SettleWait == 8
\* bluetooth_reset_count < 2
ResetCap == 2
\* for attempt in range(5) of test_gopro_connection
ProbeTries == 5
\* for verify_attempt in range(3)
VerifyPolls == 3
\* activate_gopro_wifi_ble(gopro_id, max_retries=3) of v3
max_retries == 3

\* Number of connect_single_gopro calls explored in one behaviour.
MaxCalls == 2

\* Number of capture jobs (triggers) explored in one behaviour.
MaxJobs == 3

\* Number of triggers main handles in one behaviour.
MaxTriggers == 2

\* Number of capture jobs before the interrupt, in the behaviours of SpecStop.
MaxStopJobs == 2

\* The stop signal on the queue: combination_queue.put(None).
StopSignal == 0

\* config["name"] and config["download_subdir"] of a device.
Name(d) == IF d = "gopro3" THEN "GoPro3" ELSE "GoPro1"

Subdir(d) == IF d = "gopro3" THEN "GoPro3" ELSE "GoPro1"

\* Names a camera gives its clips; both cameras number their clips alike.
FirstClip == "GH010001.MP4"

RemoteNames == {FirstClip, "GH010002.MP4"}

RECORD_SECS == 38

FINALIZE_SECS == 2

\* Clock ticks per second: a datetime is finer than the second that
\* strftime("%Y-%m-%d_%H-%M-%S") keeps.
Subsec == 2

\* Number of capture jobs in the behaviours of SpecFetch.
MaxFetchJobs == 2

\* Largest timestamp (in ticks) a camera reports for a clip.
MaxMediaTime == 3

\* datetime.now() in job number `job`: at the start of record_and_fetch_all,
\* or (late) in a download task, RECORD_SECS + FINALIZE_SECS later at least.
ClockAt(job, late) ==
    (job * (RECORD_SECS + FINALIZE_SECS + 1)
       + (IF late THEN RECORD_SECS + FINALIZE_SECS ELSE 0)) * Subsec + 1

\* dt.strftime("%Y-%m-%d_%H-%M-%S"): the second, without its fraction.
Strftime(dt) == dt \div Subsec

\* Times are kept in units of 1/Scale second, so that 1.5 ** attempt is exact
\* for every attempt below max_attempts.
Scale == 2 ^ (max_attempts - 1)

Min(a, b) == IF a <= b THEN a ELSE b

---------------------------------------------------------------------------
(* Pure helpers of the connection procedure *)

\* delay = min(base_delay * (1.5 ** attempt) + (attempt * 0.5), 15)
BackoffDelayNoCap(a) == (base_delay * (3 ^ a) * Scale) \div (2 ^ a) + (a * Scale) \div 2
BackoffDelay(a) ==
    Min((base_delay * (3 ^ a) * Scale) \div (2 ^ a) + (a * Scale) \div 2, DelayCap * Scale)

\* The wait before attempt a (0-based): time.sleep(8) first, the backoff afterwards.
WaitBefore(a) == IF a > 0 THEN BackoffDelay(a) ELSE SettleWait * Scale

\* What the failure text of the BLE command contains.
Stderrs == [timeout : BOOLEAN, refused : BOOLEAN, notfound : BOOLEAN]

\* Faulty variant: the refused / not-found tests come before the timeout test.
needs_bt_reset_RefusedFirst(stderr, a) ==
    IF stderr.refused \/ stderr.notfound THEN TRUE
    ELSE IF stderr.timeout THEN a >= 2
    ELSE a >= 1

\* needs_bt_reset, decided by the if/elif chain over stderr.lower()
needs_bt_reset(stderr, a) ==
    IF stderr.timeout THEN a >= 2
    ELSE IF stderr.refused THEN TRUE
    ELSE IF stderr.notfound THEN TRUE
    ELSE a >= 1

\* run_cmd's (success, stdout) for the status curl: exit status and http_code.
ProbeOutcomes(up) ==
    IF up THEN {<<TRUE, "200">>} ELSE {<<TRUE, "500">>, <<FALSE, "000">>}

\* Faulty variant: the status code is compared with the wrong text.
ProbeIs200_WrongText(o) == o[1] /\ o[2] = "OK"

\* success and output.strip() == "200"   (v3 looks at stdout only)
ProbeIs200(o) == IF variant = "v4" THEN o[1] /\ o[2] = "200" ELSE o[2] = "200"

---------------------------------------------------------------------------
(* Initial state *)

\* The download task of a device has not run in the current job.
NoPath == [dir |-> "", stamp |-> -1, name |-> "", remote |-> ""]

NoDownload ==
    [ran |-> FALSE, transfer |-> FALSE, sizeOk |-> FALSE, deleted |-> FALSE, local |-> "none",
     path |-> NoPath, stored |-> NoPath, space |-> TRUE]

\* The current job has put no task on the queue.
NoTask == [video1 |-> NoPath, video2 |-> NoPath, output |-> NoPath]

ConnInit ==
    /\ cdev = "none"
    /\ ifaceFound = TRUE
    /\ cpc = "idle"
    /\ calls = 0
    /\ upAtCall = FALSE
    /\ envChanged = FALSE
    /\ probeAttempt = 0
    /\ attempt = 0
    /\ bluetooth_reset_count = 0
    /\ waits = <<>>
    /\ resetCalls = 0
    /\ bleCalls = 0
    /\ netCmds = 0
    /\ probes = 0
    /\ firstProbes = 0
    /\ probe200 = FALSE
    /\ ssidSeen = FALSE
    /\ softFail = FALSE
    /\ exhausted = "none"
    /\ cresult = "none"

JobInit ==
    /\ jpc = "idle"
    /\ jobs = 0
    /\ status = [d \in GOPROS |-> FALSE]
    /\ rec = [d \in GOPROS |-> "none"]
    /\ dl = [d \in GOPROS |-> "none"]
    /\ downloaded_files = {}
    /\ shutterCmds = 0
    /\ dlCmds = 0
    /\ combSpace = "na"
    /\ enq = 0
    /\ dlinfo = [d \in GOPROS |-> NoDownload]
    /\ recording_time = 0
    /\ lastTask = NoTask

\* main starts the worker thread only when ffmpeg is installed.
WorkerInit ==
    /\ queue = <<>>
    /\ enqueued = <<>>
    /\ wpc \in {"get", "off"}
    /\ wjob = 0
    /\ tried = <<>>
    /\ wfile = "absent"
    /\ wwriter = 0
    /\ wresult = "none"
    /\ started = <<>>
    /\ finished = <<>>

MainInit ==
    /\ mpc = "poll"
    /\ pending = <<>>
    /\ results = TRUE
    /\ triggers = 0

\* Before any download of the first dual-camera revision.
V2Init == v2path = [d \in GOPROS |-> NoPath]

\* record_and_fetch_2_cams.py drives the two cameras by the interface each is
\* reached through: trigger_cam("wlan0"), trigger_cam("wlan1").
Interfaces == {"wlan0", "wlan1"}

\* Before the first trigger of the two-camera revision.
TwoCamInit ==
    /\ kpc = "idle"
    /\ kjobs = 0
    /\ trig = [i \in Interfaces |-> <<>>]
    /\ clips = [i \in Interfaces |-> "none"]

\* A credential profile:
\*   exists  the file is there
\*   base    it holds the header (ctrl_interface, update_config, country)
\*   blocks  number of network blocks with the device's ssid
AbsentProfile == [exists |-> FALSE, base |-> FALSE, blocks |-> 0]

\* No profile step has run; the files are not there.
ProfInit ==
    /\ wpa_conf = [d \in GOPROS |-> AbsentProfile]
    /\ runs = [d \in GOPROS |-> 0]
    /\ raisedRun = [d \in GOPROS |-> FALSE]

\* No activation round has run.
NoRound ==
    [ran |-> FALSE, ble |-> FALSE, seenAt |-> 0,
     stderr |-> [timeout |-> FALSE, refused |-> FALSE, notfound |-> FALSE],
     resetOk |-> FALSE, alt |-> FALSE, altSeen |-> FALSE]

RoundInit == lastRound = NoRound

\* No host route has been installed.
RouteInit == routes = {}

\* Both cameras hold their first clip.
CamInit ==
    /\ latest = [d \in GOPROS |-> FirstClip]
    /\ V2Init
    /\ TwoCamInit
    /\ ProfInit
    /\ RoundInit
    /\ RouteInit

StopInit ==
    /\ sdpc = "run"
    /\ obsEmpty = FALSE
    /\ obsElapsed = FALSE
    /\ forced = FALSE
    /\ sentinelPut = FALSE

Init ==
    /\ variant \in Variants
    /\ httpUp \in [GOPROS -> BOOLEAN]
    /\ ConnInit
    /\ JobInit
    /\ WorkerInit
    /\ MainInit
    /\ StopInit
    /\ CamInit

---------------------------------------------------------------------------
(* Environment *)

\* The camera drops off or comes back by itself (radio range, sleep, power).
EnvFlap(d) ==
    /\ cpc \in {"idle", "probe1", "probe2"}
    /\ jpc \in {"idle", "done", "aborted"}
    /\ httpUp' = [httpUp EXCEPT ![d] = ~httpUp[d]]
    /\ envChanged' = (envChanged \/ cdev = d)
    /\ UNCHANGED <<variant, cdev, ifaceFound, cpc, calls, upAtCall, probeAttempt, attempt,
                   bluetooth_reset_count, waits, resetCalls, bleCalls, netCmds,
                   probes, firstProbes, probe200, ssidSeen, softFail, exhausted, cresult, jobVars, workerVars>>

---------------------------------------------------------------------------
(* v4: connect_single_gopro and the functions it calls *)

\* Return from connect_single_gopro with value r.
Return(r) == /\ cresult' = r
             /\ cpc' = "done"

\* Faulty variant: the result of the interface check is ignored.
InterfaceMissing_Ignored(found) == FALSE

\* if not success: "Interface ... not found", return False
\* (v3: if result.returncode != 0)
InterfaceMissing(found) == ~found

\* connect_single_gopro, lines 311-320: entry and the interface check.
connect_single_gopro(d) ==
    /\ variant = "v4"
    /\ cpc = "idle"
    /\ calls < MaxCalls
    /\ calls' = calls + 1
    /\ cdev' = d
    /\ upAtCall' = httpUp[d]
    /\ envChanged' = FALSE
    /\ probeAttempt' = 0
    /\ attempt' = 0
    /\ bluetooth_reset_count' = 0
    /\ waits' = <<>>
    /\ resetCalls' = 0
    /\ bleCalls' = 0
    /\ netCmds' = 0
    /\ probes' = 0
    /\ firstProbes' = 0
    /\ probe200' = FALSE
    /\ ssidSeen' = FALSE
    /\ softFail' = FALSE
    /\ exhausted' = "none"
    /\ \E ifExists \in (IF httpUp[d] THEN {TRUE} ELSE BOOLEAN) :
          /\ ifaceFound' = ifExists
          /\ IF InterfaceMissing(ifExists)
             THEN Return("false")
             ELSE cpc' = "probe1" /\ cresult' = "none"
    /\ UNCHANGED <<variant, httpUp, jobVars, workerVars>>

\* One iteration of the loop of test_gopro_connection, and what
\* connect_single_gopro does with the function's result (lines 323-325, 346).
test_gopro_connection ==
    /\ cpc \in {"probe1", "probe2"}
    /\ \E o \in ProbeOutcomes(httpUp[cdev]) :
          /\ probes' = probes + 1
          /\ firstProbes' = IF cpc = "probe1" THEN firstProbes + 1 ELSE firstProbes
          /\ IF ProbeIs200(o)
             THEN /\ probe200' = TRUE
                  /\ probeAttempt' = 0
                  /\ exhausted' = exhausted
                  /\ Return("true")
             ELSE /\ probe200' = probe200
                  /\ IF probeAttempt + 1 < ProbeTries
                     THEN /\ probeAttempt' = probeAttempt + 1
                          /\ UNCHANGED <<cpc, cresult, exhausted>>
                     ELSE /\ probeAttempt' = 0
                          /\ IF cpc = "probe1"
                             THEN /\ cpc' = "activate"
                                  /\ UNCHANGED <<cresult, exhausted>>
                             ELSE /\ exhausted' = "probe"
                                  /\ Return("false")
    /\ UNCHANGED <<variant, httpUp, cdev, ifaceFound, calls, upAtCall, envChanged, attempt,
                   bluetooth_reset_count, waits, resetCalls, bleCalls, netCmds,
                   ssidSeen, softFail, jobVars, workerVars>>

\* activate_gopro_wifi, lines 114-120: the scan before the loop.
activate_gopro_wifi_start ==
    /\ variant = "v4"
    /\ cpc = "activate"
    /\ \E alreadyOn \in BOOLEAN :
          /\ ssidSeen' = alreadyOn
          /\ cpc' = IF alreadyOn THEN "setup" ELSE "attempt"
    /\ softFail' = FALSE
    /\ attempt' = 0
    /\ bluetooth_reset_count' = 0
    /\ UNCHANGED <<variant, httpUp, cdev, ifaceFound, calls, upAtCall, envChanged, probeAttempt,
                   waits, resetCalls, bleCalls, netCmds, probes, firstProbes, probe200,
                   exhausted, cresult, jobVars, workerVars>>

\* Faulty variant: the exit status of the command is taken as proof.
Confirmed_ExitStatus(ok, seen) == ok

\* if success: ... if is_gopro_wifi_already_on(gopro_id): return True
\* (the same shape after alt_success)
Confirmed(ok, seen) == ok /\ seen

\* if needs_bt_reset and bluetooth_reset_count < 2 and attempt < max_attempts - 1
ResetGuard(needs) ==
    needs /\ bluetooth_reset_count < ResetCap /\ attempt < max_attempts - 1

\* Faulty variant: off by one, the last three attempts.
AltGuard_FinalThree == attempt >= max_attempts - 3

\* Faulty variant: the non-interactive command follows every failed attempt.
AltGuard_Always == TRUE

\* if attempt >= max_attempts - 2
AltGuard == attempt >= max_attempts - 2

\* activate_gopro_wifi, lines 122-191: one round of the loop.
\*   ble      exit status of the interactive BLE command
\*   seenAt   verification poll (1..3) at which the SSID was seen, 0 if never
\*   stderr   what the command's failure text contains
\*   resetOk  result of reset_bluetooth_smart ("UP RUNNING" seen)
\*   alt      exit status of the non-interactive BLE command
\*   altSeen  the scan after the alternate command saw the SSID
activate_round(ble, seenAt, stderr, resetOk, alt, altSeen) ==
    /\ variant = "v4"
    /\ cpc = "attempt"
    /\ waits' = Append(waits, WaitBefore(attempt))
    /\    /\ softFail' = (ble /\ seenAt = 0)
          /\ IF Confirmed(ble, seenAt > 0)
             THEN \* return True from inside the verification loop
               /\ bleCalls' = bleCalls + 1
               /\ ssidSeen' = (seenAt > 0)
               /\ cpc' = "setup"
               /\ UNCHANGED <<attempt, bluetooth_reset_count, resetCalls,
                              exhausted, cresult>>
             ELSE
               LET doReset == ResetGuard(needs_bt_reset(stderr, attempt))
                   doAlt   == AltGuard
               IN /\ resetCalls' = IF doReset THEN resetCalls + 1 ELSE resetCalls
                  /\ ssidSeen' = (doAlt /\ alt /\ altSeen)
                  /\ bluetooth_reset_count' =
                        IF doReset /\ resetOk THEN bluetooth_reset_count + 1
                        ELSE bluetooth_reset_count
                  /\ bleCalls' = IF doAlt THEN bleCalls + 2 ELSE bleCalls + 1
                  /\ IF doAlt /\ Confirmed(alt, altSeen)
                     THEN /\ cpc' = "setup"
                          /\ UNCHANGED <<attempt, exhausted, cresult>>
                     ELSE IF attempt + 1 < max_attempts
                     THEN /\ attempt' = attempt + 1
                          /\ UNCHANGED <<cpc, exhausted, cresult>>
                     ELSE \* "All BLE attempts failed": return False
                          /\ attempt' = attempt + 1
                          /\ exhausted' = "activation"
                          /\ Return("false")
    /\ UNCHANGED <<variant, httpUp, cdev, ifaceFound, calls, upAtCall, envChanged, probeAttempt,
                   netCmds, probes, firstProbes, probe200, jobVars, workerVars>>

\* One round, whatever its commands return.
activate_gopro_wifi ==
    \E ble \in BOOLEAN, seenAt \in 0..VerifyPolls, stderr \in Stderrs,
       resetOk \in BOOLEAN, alt \in BOOLEAN, altSeen \in BOOLEAN :
       activate_round(ble, seenAt, stderr, resetOk, alt, altSeen)

\* Profile of the interface when setup_wifi_interface looks at it:
\* does the file exist, and does it hold the ssid line.
Profiles == {"absent", "base", "network"}

\* run_cmd(cmd, timeout=30, shell=True) takes no `input` argument: the two
\* calls run_cmd(..., input=...) of setup_wifi_interface raise TypeError.
SetupRaises(profile) == profile \in {"absent", "base"}

\* setup_wifi_interface, lines 222-265, called at line 333.
setup_wifi_interface ==
    /\ variant = "v4"
    /\ cpc = "setup"
    /\ httpUp' = [httpUp EXCEPT ![cdev] = FALSE]
    /\ netCmds' = netCmds + 6
    /\ \E profile \in Profiles :
          IF SetupRaises(profile)
          THEN Return("raised")
          ELSE cpc' = "connect" /\ UNCHANGED cresult
    /\ UNCHANGED <<variant, cdev, ifaceFound, calls, upAtCall, envChanged, probeAttempt, attempt,
                   bluetooth_reset_count, waits, resetCalls, bleCalls, probes, firstProbes,
                   probe200, ssidSeen, softFail, exhausted, jobVars, workerVars>>

\* Faulty variant: connect_single_gopro trusts the association and returns True.
FinalProbeStage_Skipped == Return("true")

\* Step 4 of connect_single_gopro: return test_gopro_connection(gopro_id)
FinalProbeStage == cpc' = "probe2" /\ UNCHANGED cresult

\* connect_wifi, lines 267-291, called at line 340.
connect_wifi ==
    /\ variant = "v4"
    /\ cpc = "connect"
    /\ \E supplicant \in BOOLEAN, gotLease \in BOOLEAN, associated \in BOOLEAN :
          IF ~supplicant
          THEN /\ netCmds' = netCmds + 1
               /\ exhausted' = "association"
               /\ Return("false")
               /\ UNCHANGED httpUp
          ELSE /\ netCmds' = netCmds + (IF gotLease THEN 3 ELSE 4)
               /\ httpUp' = [httpUp EXCEPT ![cdev] = associated]
               /\ FinalProbeStage
               /\ UNCHANGED exhausted
    /\ UNCHANGED <<variant, cdev, ifaceFound, calls, upAtCall, envChanged, probeAttempt, attempt,
                   bluetooth_reset_count, waits, resetCalls, bleCalls, probes, firstProbes,
                   probe200, ssidSeen, softFail, jobVars, workerVars>>

---------------------------------------------------------------------------
(* v3: GoProConnectionManager.connect_single_gopro and what it calls *)

\* connect_single_gopro of v3, lines 303-330: interface check, cleanup of the
\* interface (pkill wpa_supplicant, pkill dhclient, rm control file),
\* reset_bluetooth, reset_network_interface.  No probe comes first.
connect_single_gopro_v3(d) ==
    /\ variant = "v3"
    /\ cpc = "idle"
    /\ calls < MaxCalls
    /\ calls' = calls + 1
    /\ cdev' = d
    /\ upAtCall' = httpUp[d]
    /\ envChanged' = FALSE
    /\ probeAttempt' = 0
    /\ attempt' = 0
    /\ bluetooth_reset_count' = 0
    /\ waits' = <<>>
    /\ bleCalls' = 0
    /\ ifaceFound' \in (IF httpUp[d] THEN {TRUE} ELSE BOOLEAN)
    /\ probes' = 0
    /\ firstProbes' = 0
    /\ probe200' = FALSE
    /\ ssidSeen' = FALSE
    /\ softFail' = FALSE
    /\ exhausted' = "none"
    /\ \E btOk \in BOOLEAN, ifaceOk \in BOOLEAN :
          IF InterfaceMissing(ifaceFound')
          THEN /\ netCmds' = 0
               /\ resetCalls' = 0
               /\ UNCHANGED httpUp
               /\ Return("false")
          ELSE /\ httpUp' = [httpUp EXCEPT ![d] = FALSE]
               /\ resetCalls' = 1
               /\ IF ~btOk
                  THEN netCmds' = 3 /\ Return("false")
                  ELSE /\ netCmds' = 9
                       /\ IF ~ifaceOk
                          THEN Return("false")
                          ELSE cpc' = "v3activate" /\ cresult' = "none"
    /\ UNCHANGED <<variant, jobVars, workerVars>>

\* activate_gopro_wifi_ble of v3, lines 103-143: one round of the loop.
activate_gopro_wifi_ble ==
    /\ variant = "v3"
    /\ cpc = "v3activate"
    /\ bleCalls' = bleCalls + 1
    /\ \E ble \in BOOLEAN :
          IF ble
          THEN /\ cpc' = "v3associate"
               /\ UNCHANGED <<attempt, resetCalls, exhausted, cresult>>
          ELSE /\ attempt' = attempt + 1
               /\ IF attempt + 1 < max_retries
                  THEN /\ resetCalls' = resetCalls + 1
                       /\ UNCHANGED <<cpc, exhausted, cresult>>
                  ELSE /\ exhausted' = "activation"
                       /\ Return("false")
                       /\ UNCHANGED resetCalls
    /\ UNCHANGED <<variant, httpUp, cdev, ifaceFound, calls, upAtCall, envChanged, probeAttempt,
                   bluetooth_reset_count, waits, netCmds, probes, firstProbes, probe200, ssidSeen, softFail,
                   jobVars, workerVars>>

\* connect_single_gopro of v3, lines 341-359: create_wpa_supplicant_config,
\* connect_wifi, assign_static_ip, add_route.
associate_v3 ==
    /\ variant = "v3"
    /\ cpc = "v3associate"
    /\ \E config_file \in BOOLEAN, supplicant \in BOOLEAN, gotLease \in BOOLEAN,
          static \in BOOLEAN, associated \in BOOLEAN :
          IF ~config_file
          THEN /\ exhausted' = "association"
               /\ Return("false")
               /\ UNCHANGED <<netCmds, httpUp>>
          ELSE IF ~supplicant
          THEN /\ netCmds' = netCmds + 1
               /\ exhausted' = "association"
               /\ Return("false")
               /\ UNCHANGED httpUp
          ELSE IF ~gotLease /\ ~static
          THEN /\ netCmds' = netCmds + 3
               /\ exhausted' = "association"
               /\ Return("false")
               /\ UNCHANGED httpUp
          ELSE /\ netCmds' = netCmds + (IF gotLease THEN 3 ELSE 4)
               /\ httpUp' = [httpUp EXCEPT ![cdev] = associated]
               /\ FinalProbeStage
               /\ UNCHANGED exhausted
    /\ UNCHANGED <<variant, cdev, ifaceFound, calls, upAtCall, envChanged, probeAttempt, attempt,
                   bluetooth_reset_count, waits, resetCalls, bleCalls, probes, firstProbes,
                   probe200, ssidSeen, softFail, jobVars, workerVars>>

\* The caller takes the result; the next call may start.
ConnectDone ==
    /\ cpc = "done"
    /\ calls < MaxCalls
    /\ cpc' = "idle"
    /\ cdev' = "none"
    /\ ifaceFound' = TRUE
    /\ UNCHANGED <<variant, httpUp, calls, upAtCall, envChanged, probeAttempt, attempt,
                   bluetooth_reset_count, waits, resetCalls, bleCalls, netCmds,
                   probes, firstProbes, probe200, ssidSeen, softFail, exhausted, cresult, jobVars, workerVars>>

NextConn ==
    /\ \/ \E d \in GOPROS : EnvFlap(d)
       \/ \E d \in GOPROS : connect_single_gopro(d)
       \/ test_gopro_connection
       \/ activate_gopro_wifi_start
       \/ activate_gopro_wifi
       \/ setup_wifi_interface
       \/ connect_wifi
       \/ \E d \in GOPROS : connect_single_gopro_v3(d)
       \/ activate_gopro_wifi_ble
       \/ associate_v3
       \/ ConnectDone
    /\ UNCHANGED <<mainVars, stopVars, camVars>>

SpecConn == Init /\ [][NextConn]_vars

---------------------------------------------------------------------------
(* v4: one call of connect_single_gopro up to the end of its activation,
   with what the commands of each round returned kept in lastRound *)

\* A command that did not run returned nothing: the polls follow a success of
\* the primary command only, the reset and the alternate command follow a
\* round that was not confirmed, the last scan follows a success of the
\* alternate command.
activate_round_observed ==
    \E ble \in BOOLEAN, stderr \in Stderrs :
    \E seenAt \in (IF ble THEN 0..VerifyPolls ELSE {0}) :
    \E resetOk \in (IF seenAt = 0 /\ ResetGuard(needs_bt_reset(stderr, attempt))
                     THEN BOOLEAN ELSE {FALSE}),
       alt \in (IF seenAt = 0 /\ AltGuard THEN BOOLEAN ELSE {FALSE}) :
    \E altSeen \in (IF alt THEN BOOLEAN ELSE {FALSE}) :
       /\ activate_round(ble, seenAt, stderr, resetOk, alt, altSeen)
       /\ lastRound' = [ran |-> TRUE, ble |-> ble, seenAt |-> seenAt, stderr |-> stderr,
                        resetOk |-> resetOk, alt |-> alt, altSeen |-> altSeen]

NextActivate ==
    /\ \/ /\ \/ \E d \in GOPROS : connect_single_gopro(d)
             \/ cpc = "probe1" /\ test_gopro_connection
             \/ activate_gopro_wifi_start
          /\ UNCHANGED lastRound
       \/ activate_round_observed
    /\ UNCHANGED <<mainVars, stopVars, latest, v2path, twoCamVars, profVars, routes>>

\* The camera does not answer: the call gets as far as the activation.
InitActivate == Init /\ variant = "v4" /\ wpc = "get" /\ \A d \in GOPROS : ~httpUp[d]

SpecActivate == InitActivate /\ [][NextActivate]_vars

---------------------------------------------------------------------------
(* Capture job: record_and_fetch_all *)

\* check_all_connected / check_all_gopros_connected: one status probe per device.
check_all_connected == [d \in GOPROS |-> httpUp[d]]

\* Faulty variant: the job goes on when at least one device answers.
AllConnected_Any(st) == \E d \in GOPROS : st[d]

\* all_ok = gopro3_ok and gopro1_ok      (v3: connected_count < 2 aborts)
AllConnected(st) == \A d \in GOPROS : st[d]

\* record_and_fetch_all, entry: the connection check, the timestamp, the
\* controllers and the submission of one record task per device.
record_and_fetch_all ==
    /\ jpc \in {"idle", "done", "aborted"}
    /\ jobs < MaxJobs
    /\ jobs' = jobs + 1
    /\ status' = check_all_connected
    /\ dl' = [d \in GOPROS |-> "none"]
    /\ downloaded_files' = {}
    /\ shutterCmds' = 0
    /\ dlCmds' = 0
    /\ combSpace' = "na"
    /\ enq' = 0
    /\ dlinfo' = [d \in GOPROS |-> NoDownload]
    /\ lastTask' = NoTask
    /\ IF AllConnected(check_all_connected)
       THEN /\ jpc' = "record"
            /\ rec' = [d \in GOPROS |-> "todo"]
            /\ recording_time' = ClockAt(jobs', FALSE)
       ELSE /\ jpc' = "aborted"
            /\ rec' = [d \in GOPROS |-> "none"]
            /\ recording_time' = 0
    /\ UNCHANGED <<variant, httpUp, connVars, workerVars>>

\* Faulty variant: a failed record task cancels the task of the other device.
TaskRuns_UnlessOtherFailed(d) ==
    jpc = "record" /\ \A e \in GOPROS \ {d} : rec[e] # "fail"

\* executor.submit(controller.record_video, RECORD_SECS) for each controller,
\* max_workers=2: each task has a thread of its own, and the result of each
\* future is taken inside its own try/except.
TaskRuns(d) == jpc = "record"

\* record_video: the start command (shutter?p=1).
record_video_start(d) ==
    /\ TaskRuns(d)
    /\ rec[d] = "todo"
    /\ shutterCmds' = shutterCmds + 1
    /\ \E ok \in BOOLEAN :
          rec' = [rec EXCEPT ![d] = IF ok THEN "holding" ELSE "fail"]
    /\ UNCHANGED <<variant, httpUp, connVars, workerVars, jpc, jobs, status, dl,
                   downloaded_files, dlCmds, combSpace, enq, fetchVars>>

\* record_video: after time.sleep(duration), the stop command (shutter?p=0).
record_video_stop(d) ==
    /\ TaskRuns(d)
    /\ rec[d] = "holding"
    /\ shutterCmds' = shutterCmds + 1
    /\ \E ok \in BOOLEAN :
          rec' = [rec EXCEPT ![d] = IF ok THEN "ok" ELSE "fail"]
    /\ UNCHANGED <<variant, httpUp, connVars, workerVars, jpc, jobs, status, dl,
                   downloaded_files, dlCmds, combSpace, enq, fetchVars>>

\* Faulty variant: the first finished record task lets the downloads begin.
RecordsDone_Any == \E d \in GOPROS : rec[d] \in {"ok", "fail"}

\* The end of `with ThreadPoolExecutor(max_workers=2) as executor:` around the
\* record tasks: as_completed has yielded every future and the executor has
\* shut down with wait=True.
RecordsDone == \A d \in GOPROS : rec[d] \in {"ok", "fail"}

\* Both record futures are done (the with-block ends), FINALIZE_SECS pass and
\* the download tasks are submitted.  v4 asks each camera for its latest file
\* first (get_latest_video) and submits a task only when there is one; v3
\* submits one task per device.
submit_downloads ==
    /\ jpc = "record"
    /\ RecordsDone
    /\ jpc' = "download"
    /\ IF variant = "v4"
       THEN \E filename \in [GOPROS -> BOOLEAN] :
               dl' = [d \in GOPROS |-> IF filename[d] THEN "todo" ELSE "nofile"]
       ELSE dl' = [d \in GOPROS |-> "todo"]
    /\ UNCHANGED <<variant, httpUp, connVars, workerVars, jobs, status, rec,
                   downloaded_files, shutterCmds, dlCmds, combSpace, enq, fetchVars>>

\* Result of download_video (v4) / download_latest_clip_with_timestamp (v3):
\*   space     free space is at least 0.5 GB
\*   listed    v3: the media list was fetched and holds a video
\*   transfer  curl ended with status 0 and the local file exists
\*   sizeOk    v3: the file is larger than 0.1 MB
download_result(space, listed, transfer, sizeOk) ==
    IF variant = "v4"
    THEN space /\ transfer
    ELSE space /\ listed /\ transfer /\ sizeOk

\* Faulty variant: the transfer starts whatever the free space is.
transfer_started_Always(space, listed) == TRUE

\* Whether the transfer (curl -o) was started at all.
transfer_started(space, listed) ==
    IF variant = "v4" THEN space ELSE space /\ listed

\* Whether the delete command is sent to the camera after the transfer.
\*   v3: only inside `if file_size_mb > 0.1`
\*   v4: inside `if success and os.path.exists(local_path)`, no size test
delete_issued(transfer, sizeOk) ==
    IF variant = "v4" THEN transfer ELSE transfer /\ sizeOk

\* What is at the local path when the task returns.
\*   "none"     no transfer was started
\*   "kept"     the downloaded file stays
\*   "removed"  v3: os.remove(final_dst) of a corrupt or partial download
\*   "left"     v4: whatever curl wrote stays, nothing removes it
local_after(begun, transfer, sizeOk) ==
    IF ~begun THEN "none"
    ELSE IF variant = "v4" THEN (IF transfer THEN "kept" ELSE "left")
    ELSE IF transfer /\ sizeOk THEN "kept" ELSE "removed"

\* ts = timestamp.strftime("%Y-%m-%d_%H-%M-%S"), of the datetime passed in
\* by record_and_fetch_all.
DownloadStamp(passed, now) == Strftime(passed)

\* Faulty variant: one directory for both devices, no device name in the file.
LocalPath_Shared(d, stamp, remote) ==
    [dir |-> "", stamp |-> stamp, name |-> "", remote |-> remote]

\* os.path.join(self.download_dir, f"{ts}_{self.config['name']}_{filename}")
LocalPath(d, stamp, remote) ==
    [dir |-> Subdir(d), stamp |-> stamp, name |-> Name(d), remote |-> remote]

\* Clips of device d that earlier jobs may have left in its directory, with
\* the time they were written.
OlderFiles(d, job) ==
    {[path  |-> LocalPath(d, Strftime(ClockAt(j, FALSE)), latest[d]),
      ctime |-> ClockAt(j, TRUE)] : j \in 1..(job - 1)}

\* Faulty variant: min instead of max.
LatestFile_Oldest(files) ==
    CHOOSE f \in files : \A g \in files : f.ctime <= g.ctime

\* v3: latest_file = max(files, key=os.path.getctime)
LatestFile(files) ==
    CHOOSE f \in files : \A g \in files : g.ctime <= f.ctime

\* Faulty variant: the path is stored whatever the task returned.
StoreDownload_Always(d, result) == downloaded_files \cup {d}

\* if result: downloaded_files[gid] = ...
StoreDownload(d, result) ==
    IF result THEN downloaded_files \cup {d} ELSE downloaded_files

\* One download task and the handling of its future in as_completed.
download_video(d) ==
    /\ jpc = "download"
    /\ dl[d] = "todo"
    /\ \E space \in BOOLEAN, listed \in BOOLEAN, transfer \in BOOLEAN, sizeOk \in BOOLEAN,
          older \in (IF variant = "v3" THEN SUBSET OlderFiles(d, jobs) ELSE {{}}) :
          LET result == download_result(space, listed, transfer, sizeOk)
          IN /\ dl' = [dl EXCEPT ![d] = IF result THEN "ok" ELSE "fail"]
             /\ dlCmds' = IF transfer_started(space, listed) THEN dlCmds + 1 ELSE dlCmds
             /\ downloaded_files' = StoreDownload(d, result)
             /\ LET begun == transfer_started(space, listed)
                     tr == begun /\ transfer
                     big == tr /\ sizeOk
                     now == ClockAt(jobs, TRUE)
                     path == IF begun
                             THEN LocalPath(d, DownloadStamp(recording_time, now), latest[d])
                             ELSE NoPath
                     \* v4 stores the returned local_path, v3 the newest clip
                     \* it finds in the device's directory
                     stored == IF ~result THEN NoPath
                               ELSE IF variant = "v4" THEN path
                               ELSE LatestFile(older \cup {[path |-> path, ctime |-> now]}).path
                IN dlinfo' = [dlinfo EXCEPT ![d] =
                                 [ran      |-> TRUE,
                                  transfer |-> tr,
                                  sizeOk   |-> big,
                                  deleted  |-> begun /\ delete_issued(transfer, sizeOk),
                                  local    |-> local_after(begun, transfer, sizeOk),
                                  path     |-> path,
                                  stored   |-> stored,
                                  space    |-> space]]
    /\ UNCHANGED <<variant, httpUp, connVars, workerVars, jpc, jobs, status, rec,
                   shutterCmds, combSpace, enq, recording_time, lastTask>>

\* successful_records = sum(record_results.values())
successful_records == Cardinality({d \in GOPROS : rec[d] = "ok"})

\* v4: successful_downloads = len(downloaded_files)
\* v3: successful_downloads = sum(download_results.values())
successful_downloads ==
    IF variant = "v4" THEN Cardinality(downloaded_files)
    ELSE Cardinality({d \in GOPROS : dl[d] = "ok"})

\* Faulty variant: one downloaded clip is enough to queue a combination.
EnqueueGuard_AtLeastOne(files) == Cardinality(files) >= 1

\* if len(downloaded_files) == 2 [and 'gopro1' in ... and 'gopro3' in ...]
EnqueueGuard(files) ==
    Cardinality(files) = 2 /\ "gopro1" \in files /\ "gopro3" \in files

\* v3 only: the free-space check between the guard and the put.
\*   "ok"     available_space >= 2 * max_file_size
\*   "low"    below: "Skipping video combination due to insufficient space"
\*   "error"  makedirs / getsize raised: "Failed to queue video combination"
CombSpaces == IF variant = "v3" THEN {"ok", "low", "error"} ELSE {"ok"}

\* os.path.join(combined_dir, f"{timestamp}_Combined.mp4")
\* (v3: f"{recording_timestamp}_Combined_GoPro1+GoPro3.mp4")
OutputPath(stamp) ==
    [dir |-> "Combined", stamp |-> stamp, name |-> "",
     remote |-> IF variant = "v4" THEN "Combined.mp4" ELSE "Combined_GoPro1+GoPro3.mp4"]

\* queue_combination(downloaded_files['gopro1'], downloaded_files['gopro3'], output_file)
CombinationTask ==
    [video1 |-> dlinfo["gopro1"].stored,
     video2 |-> dlinfo["gopro3"].stored,
     output |-> OutputPath(Strftime(recording_time))]

\* combination_queue = queue.Queue(): no maxsize argument, and a maxsize of 0
\* or less makes the queue unbounded.
QueueMaxsize == 0

\* Faulty variant: a queue of one slot, Queue(maxsize=1).
PutBlocks_Bounded(q) == Len(q) >= 1

\* combination_queue.put(task), block=True: the caller waits while the queue
\* is full, and a queue is full only if it has a positive maxsize.
PutBlocks(q) == QueueMaxsize > 0 /\ Len(q) >= QueueMaxsize

\* The end of record_and_fetch_all: both download futures are done, the busy
\* line is released, the combination is queued or skipped.  A caller that
\* finds the queue full stays in put ("putting") until there is room.
queue_combination ==
    /\ \/ jpc = "download" /\ \A d \in GOPROS : dl[d] \in {"ok", "fail", "nofile"}
       \/ jpc = "putting"
    /\ IF EnqueueGuard(downloaded_files)
       THEN \E sp \in (IF jpc = "putting" THEN {"ok"} ELSE CombSpaces) :
               /\ combSpace' = sp
               /\ IF sp = "ok"
                  THEN IF PutBlocks(queue)
                       THEN /\ jpc' = "putting"
                            /\ UNCHANGED <<queue, enqueued, enq, lastTask>>
                       ELSE /\ queue' = Append(queue, jobs)
                            /\ enqueued' = Append(enqueued, jobs)
                            /\ enq' = enq + 1
                            /\ lastTask' = CombinationTask
                            /\ jpc' = "done"
                  ELSE /\ jpc' = "done"
                       /\ UNCHANGED <<queue, enqueued, enq, lastTask>>
       ELSE /\ jpc' = "done"
            /\ UNCHANGED <<combSpace, queue, enqueued, enq, lastTask>>
    /\ UNCHANGED <<variant, httpUp, connVars, jobs, status, rec, dl, downloaded_files,
                   dlinfo, recording_time, shutterCmds, dlCmds, wpc, wjob, tried, wfile,
                   wwriter, wresult,
                   started, finished>>

---------------------------------------------------------------------------
(* Combination worker *)

\* Faulty variant: ffmpeg without -y does not replace a file that is there.
FileAfter_NoOverwrite(rc, before) ==
    IF before = "absent" THEN (IF rc THEN {"complete"} ELSE {"absent", "partial"})
    ELSE {before}

\* Faulty variant: a LifoQueue hands out the newest job.
QueueGet_Newest(q) == q[Len(q)]

\* combination_queue.get(): queue.Queue is first in, first out.
QueueGet(q) == Head(q)

\* Faulty variant: taking one item empties the queue.
Remove_All(q, x) == <<>>

\* q without the job x (job numbers are unique).
Remove(q, x) == SelectSeq(q, LAMBDA y : y # x)

\* Faulty variant: the stop signal is not recognised.
IsStop_Never(task) == FALSE

\* if task is None: break
IsStop(task) == task = StopSignal

\* combination_worker / video_combination_worker: an item is taken off the
\* queue; the stop signal ends the loop, a job goes to combine_videos.
combination_worker ==
    /\ wpc = "get"
    /\ queue # <<>>
    /\ LET task == QueueGet(queue)
       IN /\ queue' = Remove(queue, task)
          /\ IF IsStop(task)
             THEN /\ wpc' = "exited"
                  /\ UNCHANGED <<wjob, started, tried, wfile, wwriter, wresult>>
             ELSE /\ wjob' = task
                  /\ started' = Append(started, task)
                  /\ wpc' = "combine"
                  /\ tried' = <<>>
                  /\ wfile' = "absent"
                  /\ wwriter' = 0
                  /\ wresult' = "none"
    /\ UNCHANGED <<variant, httpUp, connVars, jobVars, enqueued, finished>>

\* The merge methods of combine_videos (v3) and combine_videos_simple (v4).
Methods ==
    IF variant = "v3" THEN <<"demuxer", "filter_copy", "reencode">>
    ELSE <<"demuxer", "reencode">>

\* What ffmpeg -y leaves at the output path: the whole file on exit status 0;
\* otherwise (error or timeout) what was there, or a part of the new file.
FileAfter(rc, before) == IF rc THEN {"complete"} ELSE {before, "partial"}

\* Whether the attempt wrote to the output path: it did when it ended with
\* status 0 or changed what is there; a failed attempt that leaves a partial
\* file over a partial file may or may not be its author.
Wrote(rc, before, after) ==
    IF rc \/ after # before THEN {TRUE}
    ELSE IF after = "partial" THEN BOOLEAN
    ELSE {FALSE}

\* Faulty variant: the next method runs although one has succeeded.
MoreMethods_IgnoreSuccess(ok, k) == k < Len(Methods)

\* After method k: go on to method k+1 only if k failed and there is one.
MoreMethods(ok, k) == ~ok /\ k < Len(Methods)

\* v3: success = result.returncode == 0
\* v4: success and os.path.exists(output)
MethodSucceeded(rc, after) ==
    IF variant = "v3" THEN rc ELSE rc /\ after # "absent"

\* Faulty variant: a failed job ends the worker thread.
AfterJob_DiesOnFailure(ok) == IF ok THEN "get" ELSE "exited"

\* Where the worker is after a job: task_done() in the try block or, if
\* something was raised, in `except Exception`; both are inside `while True`,
\* so the next get() follows whatever the result was.
AfterJob(ok) == "get"

\* combine_videos / combine_videos_simple: the next merge method runs; after
\* the last one the worker calls task_done().
\*   pre  what comes before the first method went through
\*        (v3: ffmpeg is installed and both inputs exist; v4: the list file
\*        was written); otherwise the function returns False at once
combine_videos ==
    /\ wpc = "combine"
    /\ LET k == Len(tried) + 1
       IN \E pre \in BOOLEAN, rc \in BOOLEAN :
            IF k = 1 /\ ~pre
            THEN /\ wresult' = "failed"
                 /\ wpc' = AfterJob(FALSE)
                 /\ finished' = Append(finished, wjob)
                 /\ UNCHANGED <<tried, wfile, wwriter>>
            ELSE \E after \in FileAfter(rc, wfile) :
                 \E wrote \in Wrote(rc, wfile, after) :
                    LET ok == MethodSucceeded(rc, after)
                    IN /\ tried' = Append(tried, [m |-> Methods[k], ok |-> ok, left |-> after])
                       /\ wfile' = after
                       /\ wwriter' = IF wrote THEN k ELSE wwriter
                       /\ IF MoreMethods(ok, k)
                          THEN UNCHANGED <<wresult, wpc, finished>>
                          ELSE /\ wresult' = IF ok THEN "ok" ELSE "failed"
                               /\ wpc' = AfterJob(ok)
                               /\ finished' = Append(finished, wjob)
    /\ UNCHANGED <<variant, httpUp, connVars, jobVars, queue, enqueued, wjob, started>>

NextJob ==
    /\ \/ \E d \in GOPROS : EnvFlap(d)
       \/ record_and_fetch_all
       \/ \E d \in GOPROS : record_video_start(d)
       \/ \E d \in GOPROS : record_video_stop(d)
       \/ submit_downloads
       \/ \E d \in GOPROS : download_video(d)
       \/ queue_combination
       \/ combination_worker
       \/ combine_videos
    /\ UNCHANGED <<mainVars, stopVars, camVars>>

SpecJob == Init /\ [][NextJob]_vars

\* A step of the worker thread: queue.get(timeout=1) in a loop returns an item
\* as soon as there is one, and every ffmpeg run is given a timeout.
WorkerStep ==
    /\ \/ combination_worker
       \/ combine_videos
    /\ UNCHANGED <<mainVars, stopVars, camVars>>

\* Capture jobs followed to the end of the queue.
MaxFairJobs == 2

\* The steps of the capture jobs, the cameras staying as they were found.
CaptureStep ==
    /\ \/ jobs < MaxFairJobs /\ record_and_fetch_all
       \/ \E d \in GOPROS : record_video_start(d)
       \/ \E d \in GOPROS : record_video_stop(d)
       \/ submit_downloads
       \/ \E d \in GOPROS : download_video(d)
       \/ queue_combination
    /\ UNCHANGED <<mainVars, stopVars, camVars>>

NextJobFair ==
    \/ CaptureStep
    \/ WorkerStep

\* Capture jobs and the worker, the worker thread being scheduled again and
\* again while it has something to do.
SpecJobFair == Init /\ [][NextJobFair]_vars /\ WF_vars(WorkerStep)

---------------------------------------------------------------------------
(* v4: main, the trigger loop (lines 662-697) *)

\* The devices main has to connect, in the order it connects them:
\* the missing one, or both through connect_all_gopros (gopro3 first).
ToConnect(st) ==
    IF Cardinality({d \in GOPROS : ~st[d]}) = 1
    THEN <<CHOOSE d \in GOPROS : ~st[d]>>
    ELSE <<"gopro3", "gopro1">>

\* A trigger is detected: check_all_connected, then the choice between
\* capture, connect_single_gopro(missing_id) and connect_all_gopros; the
\* latter starts by killing the network processes and cycling both interfaces.
main_trigger ==
    /\ variant = "v4"
    /\ mpc = "poll"
    /\ triggers < MaxTriggers
    /\ triggers' = triggers + 1
    /\ results' = TRUE
    /\ IF AllConnected(check_all_connected)
       THEN /\ mpc' = "capture"
            /\ pending' = <<>>
            /\ UNCHANGED httpUp
       ELSE /\ mpc' = "reconnect"
            /\ pending' = ToConnect(check_all_connected)
            /\ httpUp' = IF Len(ToConnect(check_all_connected)) = 2
                         THEN [d \in GOPROS |-> FALSE]
                         ELSE httpUp
    /\ UNCHANGED <<variant, connVars, jobVars, workerVars>>

\* main calls connect_single_gopro for the next device it has to connect.
main_connect ==
    /\ mpc = "reconnect"
    /\ pending # <<>>
    /\ connect_single_gopro(Head(pending))
    /\ mpc' = "connecting"
    /\ UNCHANGED <<pending, results, triggers>>

\* What main does with an exception that leaves connect_single_gopro: the
\* call is not inside a try block, and the only handler around the loop is
\* `except KeyboardInterrupt`, so the exception ends main.
AfterRaise == "terminated"

\* connect_single_gopro has returned or raised.  Its locals are gone.
main_connect_return ==
    /\ mpc = "connecting"
    /\ cpc = "done"
    /\ cpc' = "idle"
    /\ cdev' = "none"
    /\ ifaceFound' = TRUE
    /\ upAtCall' = FALSE
    /\ envChanged' = FALSE
    /\ probeAttempt' = 0
    /\ attempt' = 0
    /\ bluetooth_reset_count' = 0
    /\ waits' = <<>>
    /\ resetCalls' = 0
    /\ bleCalls' = 0
    /\ netCmds' = 0
    /\ probes' = 0
    /\ firstProbes' = 0
    /\ probe200' = FALSE
    /\ ssidSeen' = FALSE
    /\ softFail' = FALSE
    /\ exhausted' = "none"
    /\ cresult' = "none"
    /\ IF cresult = "raised"
       THEN /\ mpc' = AfterRaise
            /\ UNCHANGED <<pending, results>>
       ELSE /\ results' = (results /\ cresult = "true")
            /\ pending' = Tail(pending)
            /\ mpc' = IF Tail(pending) # <<>> THEN "reconnect"
                      ELSE IF results /\ cresult = "true" THEN "capture"
                      ELSE "poll"
    /\ UNCHANGED <<variant, httpUp, calls, triggers, jobVars, workerVars>>

\* if all_ok: try: record_and_fetch_all() except Exception: print
\*   raises  an exception leaves record_and_fetch_all before the record tasks
\*           are submitted (storage setup, busy line); main catches it
main_capture ==
    /\ mpc = "capture"
    /\ \E raises \in BOOLEAN :
          IF raises
          THEN /\ mpc' = "poll"
               /\ UNCHANGED <<variant, httpUp, connVars, jobVars, workerVars>>
          ELSE /\ record_and_fetch_all
               /\ mpc' = "capturing"
    /\ UNCHANGED <<pending, results, triggers>>

\* record_and_fetch_all has returned (its locals are gone); debounce,
\* "Ready for next trigger".
main_capture_return ==
    /\ mpc = "capturing"
    /\ jpc \in {"done", "aborted"}
    /\ mpc' = "poll"
    /\ jpc' = "idle"
    /\ status' = [d \in GOPROS |-> FALSE]
    /\ rec' = [d \in GOPROS |-> "none"]
    /\ dl' = [d \in GOPROS |-> "none"]
    /\ downloaded_files' = {}
    /\ shutterCmds' = 0
    /\ dlCmds' = 0
    /\ combSpace' = "na"
    /\ enq' = 0
    /\ dlinfo' = [d \in GOPROS |-> NoDownload]
    /\ recording_time' = 0
    /\ lastTask' = NoTask
    /\ UNCHANGED <<variant, httpUp, connVars, jobs, workerVars, pending, results, triggers>>

NextMain ==
    /\ \/ main_trigger
       \/ main_connect
       \/ main_connect_return
       \/ main_capture
       \/ main_capture_return
       \/ /\ \/ mpc = "poll" /\ \E d \in GOPROS : EnvFlap(d)
             \/ test_gopro_connection
             \/ activate_gopro_wifi_start
             \/ activate_gopro_wifi
             \/ setup_wifi_interface
             \/ connect_wifi
             \/ \E d \in GOPROS : record_video_start(d)
             \/ \E d \in GOPROS : record_video_stop(d)
             \/ submit_downloads
             \/ \E d \in GOPROS : download_video(d)
             \/ queue_combination
          /\ UNCHANGED mainVars
    /\ UNCHANGED <<stopVars, camVars>>

\* The main thread of v4 alone; the worker thread is the subject of SpecJob.
InitMain == Init /\ variant = "v4"

SpecMain == InitMain /\ [][NextMain]_vars

---------------------------------------------------------------------------
(* v4: main, the connection check at startup (lines 642-657) *)

\* Before main has looked at the cameras.
StartInit ==
    /\ mpc = "start"
    /\ pending = <<>>
    /\ results = TRUE
    /\ triggers = 0

\* "Check connections": check_all_connected; if a camera is missing,
\* connect_all_gopros, which first kills the network processes and cycles
\* both interfaces.
main_startup ==
    /\ variant = "v4"
    /\ mpc = "start"
    /\ IF AllConnected(check_all_connected)
       THEN /\ mpc' = "poll"
            /\ UNCHANGED <<pending, httpUp>>
       ELSE /\ mpc' = "startconn"
            /\ pending' = <<"gopro3", "gopro1">>
            /\ httpUp' = [d \in GOPROS |-> FALSE]
    /\ UNCHANGED <<variant, connVars, jobVars, workerVars, results, triggers>>

\* connect_all_gopros calls connect_single_gopro for the next device.
main_startup_connect ==
    /\ mpc = "startconn"
    /\ pending # <<>>
    /\ connect_single_gopro(Head(pending))
    /\ mpc' = "startconnecting"
    /\ UNCHANGED <<pending, results, triggers>>

\* The locals of a finished call of connect_single_gopro are gone.
ForgetCall ==
    /\ cpc' = "idle"
    /\ cdev' = "none"
    /\ ifaceFound' = TRUE
    /\ upAtCall' = FALSE
    /\ envChanged' = FALSE
    /\ probeAttempt' = 0
    /\ attempt' = 0
    /\ bluetooth_reset_count' = 0
    /\ waits' = <<>>
    /\ resetCalls' = 0
    /\ bleCalls' = 0
    /\ netCmds' = 0
    /\ probes' = 0
    /\ firstProbes' = 0
    /\ probe200' = FALSE
    /\ ssidSeen' = FALSE
    /\ softFail' = FALSE
    /\ exhausted' = "none"
    /\ cresult' = "none"

\* connect_single_gopro has returned to connect_all_gopros, or raised: neither
\* connect_all_gopros nor main (lines 645-646) catches the exception.
main_startup_connect_return ==
    /\ mpc = "startconnecting"
    /\ cpc = "done"
    /\ ForgetCall
    /\ IF cresult = "raised"
       THEN /\ mpc' = AfterRaise
            /\ UNCHANGED <<pending, results>>
       ELSE /\ results' = (results /\ cresult = "true")
            /\ pending' = Tail(pending)
            /\ mpc' = IF Tail(pending) # <<>> THEN "startconn" ELSE "startcheck"
    /\ UNCHANGED <<variant, httpUp, calls, triggers, jobVars, workerVars>>

\* connected_count = sum(status.values()); if connected_count == 0
NoneConnected(st) == Cardinality({d \in GOPROS : st[d]}) = 0

\* After connect_all_gopros and time.sleep(3): the second check, and
\* sys.exit(1) if no camera answers.
main_startup_check ==
    /\ mpc = "startcheck"
    /\ mpc' = IF ~AllConnected(check_all_connected) /\ NoneConnected(check_all_connected)
              THEN "exited"
              ELSE "poll"
    /\ UNCHANGED <<variant, httpUp, connVars, jobVars, workerVars, pending, results, triggers>>

NextStart ==
    /\ \/ main_startup
       \/ main_startup_connect
       \/ main_startup_connect_return
       \/ main_startup_check
       \/ /\ \/ mpc \in {"start", "startcheck"} /\ \E d \in GOPROS : EnvFlap(d)
             \/ test_gopro_connection
             \/ activate_gopro_wifi_start
             \/ activate_gopro_wifi
             \/ setup_wifi_interface
             \/ connect_wifi
          /\ UNCHANGED mainVars
    /\ UNCHANGED <<stopVars, camVars>>

InitStart ==
    /\ variant = "v4"
    /\ httpUp \in [GOPROS -> BOOLEAN]
    /\ ConnInit
    /\ JobInit
    /\ WorkerInit
    /\ StartInit
    /\ StopInit
    /\ CamInit

SpecStart == InitStart /\ [][NextStart]_vars

---------------------------------------------------------------------------
(* Connecting both devices: connect_all_gopros (v4, lines 348-376) and
   GoProConnectionManager.connect_dual_gopros_sequential (v3) *)

\* Before the function is called.
SeqInit ==
    /\ mpc = "seq"
    /\ pending = <<>>
    /\ results = TRUE
    /\ triggers = 0

\* Entry of the function.  v3 first looks for both interfaces and returns
\* False if one is missing.  Then the cleanup: wpa_supplicant and dhclient are
\* killed, bluetooth is restarted, both interfaces go down and up.
connect_all_gopros ==
    /\ mpc = "seq"
    /\ \E bothFound \in (IF variant = "v3" THEN BOOLEAN ELSE {TRUE}) :
          IF bothFound
          THEN /\ mpc' = "seqnext"
               /\ pending' = <<"gopro3", "gopro1">>
               /\ httpUp' = [d \in GOPROS |-> FALSE]
               /\ UNCHANGED results
          ELSE /\ mpc' = "seqdone"
               /\ results' = FALSE
               /\ UNCHANGED <<pending, httpUp>>
    /\ UNCHANGED <<variant, connVars, jobVars, workerVars, triggers>>

\* result1 = connect_single_gopro("gopro3") ... result2 =
\* connect_single_gopro("gopro1"): the call for the next device.
connect_next ==
    /\ mpc = "seqnext"
    /\ pending # <<>>
    /\ \/ connect_single_gopro(Head(pending))
       \/ connect_single_gopro_v3(Head(pending))
    /\ mpc' = "seqcall"
    /\ UNCHANGED <<pending, results, triggers>>

\* Faulty variant: the caller goes on while the procedure is still running.
CallReturned_Early == cpc # "idle"

\* A plain call: the caller goes on when connect_single_gopro has returned
\* (or raised).
CallReturned == cpc = "done"

\* The call is over; time.sleep(3) before the second device.  After the
\* second call the function returns result1 and result2.
connect_returned ==
    /\ mpc = "seqcall"
    /\ CallReturned
    /\ ForgetCall
    /\ IF cresult = "raised"
       THEN /\ mpc' = AfterRaise
            /\ UNCHANGED <<pending, results>>
       ELSE /\ results' = (results /\ cresult = "true")
            /\ pending' = Tail(pending)
            /\ mpc' = IF Tail(pending) # <<>> THEN "seqnext" ELSE "seqdone"
    /\ UNCHANGED <<variant, httpUp, calls, triggers, jobVars, workerVars>>

NextSeq ==
    /\ \/ connect_all_gopros
       \/ connect_next
       \/ connect_returned
       \/ /\ \/ test_gopro_connection
             \/ activate_gopro_wifi_start
             \/ activate_gopro_wifi
             \/ setup_wifi_interface
             \/ connect_wifi
             \/ activate_gopro_wifi_ble
             \/ associate_v3
          /\ UNCHANGED mainVars
    /\ UNCHANGED <<stopVars, camVars>>

InitSeq ==
    /\ variant \in Variants
    /\ httpUp \in [GOPROS -> BOOLEAN]
    /\ ConnInit
    /\ JobInit
    /\ WorkerInit
    /\ SeqInit
    /\ StopInit
    /\ CamInit

SpecSeq == InitSeq /\ [][NextSeq]_vars

---------------------------------------------------------------------------
(* The sequential connection with the routing table: what the ip commands of
   the connection steps do to the host routes *)

\* GOPROS[gopro_id]["ip"]: both cameras are configured with the same address.
ip(d) == "10.5.5.9"

\* GOPROS[gopro_id]["interface"]
interface(d) == IF d = "gopro3" THEN "wlan0" ELSE "wlan1"

\* ip link set <dev> down: the kernel drops the routes through the device.
link_down(rt, dev) == {r \in rt : r.dev # dev}

\* ip route replace <dst>/32 dev <dev>: the route to the destination is
\* created, or changed if there is one (same prefix, same metric, same table).
ip_route_replace(rt, dst, dev) ==
    {r \in rt : r.dst # dst} \cup {[dst |-> dst, dev |-> dev]}

\* The steps of connect_all_gopros and of the calls it makes, each with its
\* ip commands.
NextRoute ==
    /\ \/ /\ connect_all_gopros
          /\ routes' = IF mpc' = "seqnext"
                       THEN link_down(link_down(routes, "wlan0"), "wlan1")
                       ELSE routes
       \/ /\ connect_next
          \* v3 resets the interface at the start of the call
          /\ routes' = IF variant = "v3" /\ netCmds' = 9
                       THEN link_down(routes, interface(cdev'))
                       ELSE routes
       \/ /\ connect_returned
          /\ UNCHANGED routes
       \/ /\ \/ test_gopro_connection
             \/ activate_gopro_wifi_start
             \/ activate_gopro_wifi
             \/ activate_gopro_wifi_ble
          /\ UNCHANGED <<mainVars, routes>>
       \/ /\ setup_wifi_interface
          /\ routes' = link_down(routes, interface(cdev))
          /\ UNCHANGED mainVars
       \/ /\ \/ connect_wifi
             \/ associate_v3
          \* the route command is reached when the step goes on to the probe
          /\ routes' = IF cpc' = "probe2"
                       THEN ip_route_replace(routes, ip(cdev), interface(cdev))
                       ELSE routes
          /\ UNCHANGED mainVars
    /\ UNCHANGED <<stopVars, latest, v2path, twoCamVars, profVars, lastRound>>

SpecRoute == InitSeq /\ [][NextRoute]_vars

---------------------------------------------------------------------------
(* The credential profile: create_wpa_supplicant_config of the connection
   manager (lines 100-135) and the profile part of setup_wifi_interface of v4
   (lines 239-265) *)

\* Executions of the profile step per device in one behaviour of SpecProfile.
MaxRuns == 2

\* The profiles a first execution may find: absent, empty, header only,
\* populated with the device's network.
ProfileStates ==
    {AbsentProfile,
     [exists |-> TRUE, base |-> FALSE, blocks |-> 0],
     [exists |-> TRUE, base |-> TRUE, blocks |-> 0],
     [exists |-> TRUE, base |-> TRUE, blocks |-> 1]}

\* The header written to a new file.
BaseProfile == [exists |-> TRUE, base |-> TRUE, blocks |-> 0]

\* if f'ssid="{ssid}"' not in content
SsidMissing(pf) == pf.blocks = 0

\* GoProConnectionManager.create_wpa_supplicant_config: the file it leaves.
create_wpa_supplicant_config(pf) ==
    LET made == IF ~pf.exists THEN BaseProfile ELSE pf
    IN [profile |-> IF SsidMissing(made) THEN [made EXCEPT !.blocks = @ + 1] ELSE made,
        raised  |-> FALSE]

\* What setup_wifi_interface reads of the file: exists / ssid line in content.
ProfileKind(pf) ==
    IF ~pf.exists THEN "absent"
    ELSE IF SsidMissing(pf) THEN "base"
    ELSE "network"

\* setup_wifi_interface of v4, lines 239-265: both writes go through
\* run_cmd(..., input=...), which raises before any command runs, so the file
\* is left as it was found.
ProfileAfterSetup(pf) ==
    [profile |-> pf, raised |-> SetupRaises(ProfileKind(pf))]

\* One execution of the profile step for device d.
profile_step(d) ==
    /\ runs[d] < MaxRuns
    /\ LET r == IF variant = "v4" THEN ProfileAfterSetup(wpa_conf[d])
                ELSE create_wpa_supplicant_config(wpa_conf[d])
       IN /\ wpa_conf' = [wpa_conf EXCEPT ![d] = r.profile]
          /\ raisedRun' = [raisedRun EXCEPT ![d] = r.raised]
    /\ runs' = [runs EXCEPT ![d] = @ + 1]

NextProfile ==
    /\ \E d \in GOPROS : profile_step(d)
    /\ UNCHANGED <<variant, httpUp, connVars, jobVars, workerVars, mainVars, stopVars,
                   latest, v2path, twoCamVars, lastRound, routes>>

InitProfile ==
    /\ variant \in Variants
    /\ httpUp = [d \in GOPROS |-> FALSE]
    /\ ConnInit
    /\ JobInit
    /\ WorkerInit
    /\ MainInit
    /\ StopInit
    /\ latest = [d \in GOPROS |-> FirstClip]
    /\ V2Init
    /\ TwoCamInit
    /\ RoundInit
    /\ RouteInit
    /\ wpa_conf \in [GOPROS -> ProfileStates]
    /\ runs = [d \in GOPROS |-> 0]
    /\ raisedRun = [d \in GOPROS |-> FALSE]

SpecProfile == InitProfile /\ [][NextProfile]_vars

---------------------------------------------------------------------------
(* main: the KeyboardInterrupt handler (v4 lines 699-715, v3 lines 1378-1403) *)

\* Faulty variant: the handler does not wait at all.
WaitOver_AtOnce(q, elapsed) == TRUE

\* The negation of the loop condition
\*   while combination_queue.qsize() > 0 and (time.time() - start_time) < timeout
WaitOver(q, elapsed) == Len(q) = 0 \/ elapsed

\* Ctrl-C while main is inside its try block: the frames of the loop are left
\* and the handler starts; it waits only if qsize() > 0.
KeyboardInterrupt ==
    /\ sdpc = "run"
    /\ sdpc' = IF Len(queue) > 0 THEN "wait" ELSE "stop"
    /\ obsEmpty' = (Len(queue) = 0)
    /\ jpc' = "idle"
    /\ status' = [d \in GOPROS |-> FALSE]
    /\ rec' = [d \in GOPROS |-> "none"]
    /\ dl' = [d \in GOPROS |-> "none"]
    /\ downloaded_files' = {}
    /\ shutterCmds' = 0
    /\ dlCmds' = 0
    /\ combSpace' = "na"
    /\ enq' = 0
    /\ dlinfo' = [d \in GOPROS |-> NoDownload]
    /\ recording_time' = 0
    /\ lastTask' = NoTask
    /\ UNCHANGED <<variant, httpUp, connVars, jobs, workerVars, mainVars, camVars,
                   obsElapsed, forced, sentinelPut>>

\* One evaluation of the wait loop's condition (then time.sleep(1)).
\*   elapsed  time.time() - start_time has reached timeout = 60
shutdown_wait ==
    /\ sdpc = "wait"
    /\ \E elapsed \in BOOLEAN :
          IF WaitOver(queue, elapsed)
          THEN /\ sdpc' = "stop"
               /\ obsEmpty' = (Len(queue) = 0)
               /\ obsElapsed' = elapsed
          ELSE UNCHANGED <<sdpc, obsEmpty, obsElapsed>>
    /\ UNCHANGED <<variant, httpUp, connVars, jobVars, workerVars, mainVars, camVars,
                   forced, sentinelPut>>

\* Faulty variant: the second interrupt is swallowed and the wait goes on.
AfterSecondInterrupt_Ignored == "wait"

\* Where a KeyboardInterrupt raised inside the wait loop takes main:
\*   v3: except KeyboardInterrupt: "Force quit requested", then the
\*       statements after the if, stop_combination_worker first
\*   v4: nothing catches it, the process ends
AfterSecondInterrupt == IF variant = "v3" THEN "stop" ELSE "exited"

\* A second Ctrl-C during the wait.
second_interrupt ==
    /\ sdpc = "wait"
    /\ forced' = TRUE
    /\ sdpc' = AfterSecondInterrupt
    /\ UNCHANGED <<variant, httpUp, connVars, jobVars, workerVars, mainVars, camVars,
                   obsEmpty, obsElapsed, sentinelPut>>

\* Whether the stop signal is put:
\*   v4: combination_queue.put(None), always
\*   v3: stop_combination_worker puts it only if the thread is alive
PutsStop == variant = "v4" \/ wpc \in {"get", "combine"}

\* Whether main then joins the thread (timeout 5): only if there is one.
JoinsWorker == wpc # "off" /\ PutsStop

\* "Stop worker": the stop signal, then the join.
stop_combination_worker ==
    /\ sdpc = "stop"
    /\ IF PutsStop
       THEN /\ queue' = Append(queue, StopSignal)
            /\ sentinelPut' = TRUE
       ELSE UNCHANGED <<queue, sentinelPut>>
    /\ sdpc' = IF JoinsWorker THEN "join" ELSE "exited"
    /\ UNCHANGED <<variant, httpUp, connVars, jobVars, mainVars, camVars, enqueued, wpc, wjob,
                   tried, wfile, wwriter, wresult, started, finished,
                   obsEmpty, obsElapsed, forced>>

\* combination_thread.join(timeout=5) returns, the worker having exited or
\* the 5 s being over; main ends, and the daemon thread with it.
shutdown_join ==
    /\ sdpc = "join"
    /\ \E timedOut \in BOOLEAN : wpc = "exited" \/ timedOut
    /\ sdpc' = "exited"
    /\ UNCHANGED <<variant, httpUp, connVars, jobVars, workerVars, mainVars, camVars,
                   obsEmpty, obsElapsed, forced, sentinelPut>>

NextStop ==
    \/ KeyboardInterrupt
    \/ shutdown_wait
    \/ second_interrupt
    \/ stop_combination_worker
    \/ shutdown_join
    \/ /\ sdpc = "run"
       /\ \/ jobs < MaxStopJobs /\ record_and_fetch_all
          \/ \E d \in GOPROS : record_video_start(d)
          \/ \E d \in GOPROS : record_video_stop(d)
          \/ submit_downloads
          \/ \E d \in GOPROS : download_video(d)
          \/ queue_combination
       /\ UNCHANGED <<mainVars, stopVars, camVars>>
    \/ /\ sdpc # "exited"
       /\ \/ combination_worker
          \/ combine_videos
       /\ UNCHANGED <<mainVars, stopVars, camVars>>

\* Both cameras answer throughout: the capture jobs only feed the queue here.
InitStop == Init /\ \A d \in GOPROS : httpUp[d]

SpecStop == InitStop /\ [][NextStop]_vars

---------------------------------------------------------------------------
(* File names of the downloads; the first dual-camera revision
   (record_and_fetch_dual.py) *)

\* record_and_fetch_dual.py, line 265:
\*   final_dst = os.path.join(self.download_dir, f"{ts}_{latest_name}")
\* where ts is the clip's own timestamp as the camera reports it.
LocalPath_v2(d, stamp, remote) ==
    [dir |-> Subdir(d), stamp |-> stamp, name |-> "", remote |-> remote]

\* GoProController.download_latest_clip of record_and_fetch_dual.py, as far as
\* the local path goes.
\*   dt  the timestamp of the clip in the media list
download_latest_clip(d) ==
    /\ v2path[d] = NoPath
    /\ \E dt \in 0..MaxMediaTime :
          v2path' = [v2path EXCEPT ![d] = LocalPath_v2(d, Strftime(dt), latest[d])]
    /\ UNCHANGED <<variant, httpUp, connVars, jobVars, workerVars, mainVars, stopVars, latest,
                   twoCamVars, profVars, lastRound, routes>>

NextFetch ==
    \/ /\ \/ jobs < MaxFetchJobs /\ record_and_fetch_all
          \/ \E d \in GOPROS : record_video_start(d)
          \/ \E d \in GOPROS : record_video_stop(d)
          \/ submit_downloads
          \/ \E d \in GOPROS : download_video(d)
          \/ queue_combination
       /\ UNCHANGED <<mainVars, stopVars, camVars>>
    \/ \E d \in GOPROS : download_latest_clip(d)

\* Both cameras answer; each holds a clip of any name, the same or not.
InitFetch ==
    /\ variant \in Variants
    /\ httpUp = [d \in GOPROS |-> TRUE]
    /\ ConnInit
    /\ JobInit
    /\ WorkerInit
    /\ MainInit
    /\ StopInit
    /\ V2Init
    /\ TwoCamInit
    /\ ProfInit
    /\ RoundInit
    /\ RouteInit
    /\ latest \in [GOPROS -> RemoteNames]
    /\ wpc = "get"

SpecFetch == InitFetch /\ [][NextFetch]_vars

---------------------------------------------------------------------------
(* The two-camera revision: record_and_fetch_2_cams.py *)

\* Number of triggers handled in one behaviour of SpecCams.
MaxCamJobs == 2

\* The shutter endpoint: shutter?p=1 starts a recording, shutter?p=0 stops it.
ShutterStart == 1
ShutterStop == 0

\* record_and_fetch, lines 99-103: the busy line is set and the first
\* start_dual_recording() creates and starts its two threads.
record_and_fetch ==
    /\ kpc = "idle"
    /\ kjobs < MaxCamJobs
    /\ kjobs' = kjobs + 1
    /\ trig' = [i \in Interfaces |-> <<>>]
    /\ clips' = [i \in Interfaces |-> "none"]
    /\ kpc' = "start"

\* Which call of start_dual_recording is running.
Round == IF kpc = "start" THEN 1 ELSE 2

\* trigger_cam(interface), lines 44-52, the body of one thread: curl to
\* .../shutter?p=1 with a timeout of 3 s; an exception is printed and
\* swallowed, the exit status is not looked at.
\*   ok  curl ran and ended with status 0
trigger_cam(i) ==
    /\ kpc \in {"start", "stop"}
    /\ Len(trig[i]) = Round - 1
    /\ \E ok \in BOOLEAN :
          trig' = [trig EXCEPT ![i] = Append(@, [p |-> ShutterStart, ok |-> ok])]
    /\ UNCHANGED <<kpc, kjobs, clips>>

\* t1.join(); t2.join() of the first start_dual_recording, then
\* time.sleep(RECORD_SECS) and the second start_dual_recording(), commented
\* "stops recording" (lines 58-59, 104-105).
start_dual_recording_again ==
    /\ kpc = "start"
    /\ \A i \in Interfaces : Len(trig[i]) = 1
    /\ kpc' = "stop"
    /\ UNCHANGED <<kjobs, trig, clips>>

\* The second pair of threads is joined, FINALIZE_SECS pass (lines 107-108).
finalize_wait ==
    /\ kpc = "stop"
    /\ \A i \in Interfaces : Len(trig[i]) = 2
    /\ kpc' = "fetch1"
    /\ UNCHANGED <<kjobs, trig, clips>>

\* fetch_latest_clip(interface, name_tag), lines 62-96, called for wlan0 and
\* then for wlan1 (lines 111-112); every exception is caught inside.
fetch_latest_clip(i) ==
    /\ kpc = (IF i = "wlan0" THEN "fetch1" ELSE "fetch2")
    /\ \E saved \in BOOLEAN :
          clips' = [clips EXCEPT ![i] = IF saved THEN "saved" ELSE "failed"]
    /\ kpc' = (IF i = "wlan0" THEN "fetch2" ELSE "idle")
    /\ UNCHANGED <<kjobs, trig>>

NextCams ==
    /\ \/ record_and_fetch
       \/ \E i \in Interfaces : trigger_cam(i)
       \/ start_dual_recording_again
       \/ finalize_wait
       \/ \E i \in Interfaces : fetch_latest_clip(i)
    /\ UNCHANGED <<variant, httpUp, connVars, jobVars, workerVars, mainVars, stopVars,
                   latest, v2path, profVars, lastRound, routes>>

\* The revision variable plays no part in this program.
InitCams == Init /\ variant = "v4" /\ \A d \in GOPROS : httpUp[d]

SpecCams == InitCams /\ [][NextCams]_vars

---------------------------------------------------------------------------
(* Properties of the connection procedure *)

\* The call has returned and the device answered its status probe all along.
AlreadyVerified == cpc = "done" /\ upAtCall /\ ~envChanged

NoRadioNoNetwork == bleCalls = 0 /\ resetCalls = 0 /\ netCmds = 0

\* C3 (as stated, for both revisions): when the device already answers its
\* status probe, connect_single_gopro returns true and has issued no BLE
\* activation, no Bluetooth reset and no network association command.
C3_FastPathAllRevisions ==
    AlreadyVerified => (cresult = "true" /\ NoRadioNoNetwork)

\* C3 (amended): in v4, when the device already answers its status probe,
\* connect_single_gopro returns true after exactly one HTTP probe, with no BLE
\* activation, no Bluetooth reset and no network association command.
C3_FastPathV4 ==
    (variant = "v4" /\ AlreadyVerified)
        => (cresult = "true" /\ NoRadioNoNetwork /\ probes = 1)

\* C3 witness: the second of two calls, one per device, returned by the fast path.
C3_Witness ==
    /\ variant = "v4"
    /\ AlreadyVerified
    /\ cresult = "true"
    /\ calls = 2
    /\ cdev = "gopro1"

\* C4 (as stated): within one call of activate_gopro_wifi, reset_bluetooth_smart
\* is invoked at most ResetCap (2) times, whatever the resets return.
C4_ResetInvocationsCapped ==
    variant = "v4" => resetCalls <= ResetCap

\* C5 (as stated): the waits before the attempts of one activate_gopro_wifi
\* call, the 8 s settle wait included, never decrease from one attempt to the
\* next and never exceed the 15 s cap.
C5_AllWaitsMonotone ==
    /\ \A i \in 1..(Len(waits) - 1) : waits[i] <= waits[i + 1]
    /\ \A i \in 1..Len(waits) : waits[i] <= DelayCap * Scale

\* C5 (amended): the first wait is the fixed 8 s; the computed backoff waits
\* before the 2nd, 3rd, ... attempt never decrease and never exceed 15 s; the
\* wait before the 2nd attempt is shorter than the 8 s settle wait.
C5_BackoffMonotone ==
    /\ Len(waits) >= 1 => waits[1] = SettleWait * Scale
    /\ \A i \in 2..(Len(waits) - 1) : waits[i] <= waits[i + 1]
    /\ \A i \in 1..Len(waits) : waits[i] <= DelayCap * Scale
    /\ Len(waits) >= 2 => waits[2] < waits[1]

\* C5 witness: all max_attempts rounds failed, the capped wait was applied.
C5_Witness ==
    /\ Len(waits) = max_attempts
    /\ waits[max_attempts] = DelayCap * Scale
    /\ exhausted = "activation"
    /\ cresult = "false"

---------------------------------------------------------------------------
(* Properties of the capture job and of the combination worker *)

\* Both download tasks of the current job returned success.
BothDownloadsOk == \A d \in GOPROS : dl[d] = "ok"

\* How many times the current job was put on the combination queue.
JobPuts == Cardinality({i \in 1..Len(enqueued) : enqueued[i] = jobs})

\* C1 (as stated, for both revisions): at the end of a capture job exactly one
\* combination job has been queued if both downloads succeeded, and none if a
\* download failed.
C1_EnqueueIffBothDownloads ==
    jpc = "done" => JobPuts = (IF BothDownloadsOk THEN 1 ELSE 0)

\* C1 (amended): no combination job is queued unless both downloads succeeded;
\* when both succeeded, v4 queues exactly one, and v3 queues exactly one if
\* its free-space check for the combined file passes and none otherwise.
C1_EnqueueIffBothAndSpace ==
    jpc = "done" =>
        /\ ~BothDownloadsOk => JobPuts = 0
        /\ (BothDownloadsOk /\ variant = "v4") => JobPuts = 1
        /\ (BothDownloadsOk /\ variant = "v3")
              => JobPuts = (IF combSpace = "ok" THEN 1 ELSE 0)

\* C1 witness: the third job ended with both clips downloaded and one job queued.
C1_Witness ==
    /\ jpc = "done"
    /\ jobs = 3
    /\ BothDownloadsOk
    /\ JobPuts = 1

\* C2: the worker starts the jobs in the order they were queued, starts a job
\* only when every job it started before is completed, and never has two jobs
\* in work.
C2_FifoOneAtATime ==
    /\ Len(started) <= Len(enqueued)
    /\ \A i \in 1..Len(started) : started[i] = enqueued[i]
    /\ Len(finished) <= Len(started)
    /\ \A i \in 1..Len(finished) : finished[i] = started[i]
    /\ Len(started) - Len(finished) = (IF wpc = "combine" THEN 1 ELSE 0)

\* C2 witness: J1 is in work while J2 and J3 wait on the queue.
C2_Witness ==
    /\ wpc = "combine"
    /\ wjob = 1
    /\ queue = <<2, 3>>

C7_AbortUnlessBothConnected ==
    (jobs > 0 /\ \E d \in GOPROS : ~status[d]) =>
        /\ jpc = "aborted"
        /\ shutterCmds = 0
        /\ dlCmds = 0
        /\ JobPuts = 0
        /\ \A d \in GOPROS : rec[d] = "none" /\ dl[d] = "none"
        /\ downloaded_files = {}

\* C7 witness: a job aborted with exactly one of the two devices answering.
C7_Witness ==
    /\ jpc = "aborted"
    /\ status["gopro3"]
    /\ ~status["gopro1"]

ThreeMethods == <<"demuxer", "filter_copy", "reencode">>

TwoMethods == <<"demuxer", "reencode">>

\* The attempts so far follow the list ms, and every one but the last failed.
TriedInOrder(ms) ==
    /\ Len(tried) <= Len(ms)
    /\ \A i \in 1..Len(tried) :
          /\ tried[i].m = ms[i]
          /\ i < Len(tried) => ~tried[i].ok

\* C9 (as stated, for both revisions): the methods are attempted in the order
\* stream copy, filtered concatenation, full re-encode; a later one only after
\* every earlier one failed, none after a success.
C9_ThreeMethodsInOrder == TriedInOrder(ThreeMethods)

\* C9 (amended): v3 attempts stream copy, filtered concatenation, full
\* re-encode in that order; v4 has two methods, stream copy then re-encode; in
\* both a later method runs only after every earlier one failed, and none
\* after a success.
C9_MethodsInOrder ==
    /\ variant = "v3" => TriedInOrder(ThreeMethods)
    /\ variant = "v4" => TriedInOrder(TwoMethods)
    /\ (wpc = "get" /\ wresult = "ok") => tried[Len(tried)].ok

\* C9 witness: v3, the third method succeeded after the first two failed.
C9_Witness ==
    /\ variant = "v3"
    /\ wpc = "get"
    /\ Len(tried) = 3
    /\ tried[3].ok
    /\ wresult = "ok"

\* Every merge method of the revision was attempted for wjob and failed.
AllMethodsFailed ==
    /\ wpc = "get"
    /\ Len(tried) = (IF variant = "v3" THEN 3 ELSE 2)
    /\ \A i \in 1..Len(tried) : ~tried[i].ok

\* C10 (as stated): when all merge attempts of a job failed, the job is
\* reported failed and nothing, in particular no partly written file, is at
\* its output path.
C10_NoFileAfterFailure ==
    AllMethodsFailed => (wresult = "failed" /\ wfile = "absent")

\* C11: when the first merge method failed and the second succeeded, the job
\* is reported successful after exactly these two attempts, and the file at
\* the output path is complete and was written by the second method, whatever
\* the first attempt left there.
C11_SecondMethodOutputRemains ==
    (Len(tried) >= 2 /\ ~tried[1].ok /\ tried[2].ok) =>
        /\ Len(tried) = 2
        /\ wpc = "get"
        /\ wresult = "ok"
        /\ wfile = "complete"
        /\ wwriter = 2

\* C11 witness: v3, the stream copy failed leaving a partial file, the
\* filtered concatenation then succeeded.
C11_Witness ==
    /\ variant = "v3"
    /\ Len(tried) = 2
    /\ tried[1].m = "demuxer" /\ ~tried[1].ok /\ tried[1].left = "partial"
    /\ tried[2].m = "filter_copy" /\ tried[2].ok
    /\ wresult = "ok"

\* C12 (as stated, for both revisions): the delete of the remote file is
\* issued only after the transfer succeeded and the size passed the sanity
\* threshold; an undersized download is discarded locally, is a failure of
\* that device's task, and leaves the remote file undeleted.
C12_DeleteOnlyAfterSizeCheck ==
    \A d \in GOPROS :
        dlinfo[d].ran =>
            /\ dlinfo[d].deleted => (dlinfo[d].transfer /\ dlinfo[d].sizeOk)
            /\ (dlinfo[d].transfer /\ ~dlinfo[d].sizeOk) =>
                   /\ dlinfo[d].local = "removed"
                   /\ dl[d] = "fail"
                   /\ d \notin downloaded_files
                   /\ ~dlinfo[d].deleted

---------------------------------------------------------------------------
(* Properties of the trigger loop *)

\* C13: no failure or exception of a device-specific operation ends the
\* trigger loop: main is never terminated by one, and is back at polling once
\* the handling of a trigger is over.
C13_TriggerLoopSurvives == mpc # "terminated"

---------------------------------------------------------------------------
(* Properties of the shutdown *)

\* C14 (as stated, for both revisions): the stop signal is put on the queue
\* only after the handler saw the queue empty or its 60 s elapsed, and main
\* joins the worker only after the put.
C14_SentinelOnlyAfterWait ==
    /\ sentinelPut => (obsEmpty \/ obsElapsed)
    /\ sdpc = "join" => sentinelPut

\* C14 (amended): the stop signal is put only after the handler saw the
\* queue empty or its 60 s elapsed, or, in v3, after a second interrupt cut
\* the wait short; when the handler saw the queue empty and the worker has not
\* taken the signal yet, the signal is alone on the queue; main joins the
\* worker only after the put.
C14_SentinelAfterWaitOrForce ==
    /\ sentinelPut => (obsEmpty \/ obsElapsed \/ (variant = "v3" /\ forced))
    /\ (sentinelPut /\ obsEmpty /\ queue # <<>>) => queue = <<StopSignal>>
    /\ sdpc = "join" => sentinelPut

\* C14 witness: the 60 s elapsed with a job still waiting; the stop signal was
\* put behind it and main joins.
C14_Witness ==
    /\ sdpc = "join"
    /\ sentinelPut
    /\ obsElapsed /\ ~obsEmpty
    /\ Len(queue) = 2
    /\ queue[2] = StopSignal

\* The stop signal has been taken off the queue.
SentinelTaken == sentinelPut /\ \A i \in 1..Len(queue) : queue[i] # StopSignal

\* C15: the worker that takes the stop signal off the queue exits at once:
\* the signal is never started as a job, the worker has exited as soon as the
\* signal is off the queue, and once exited it starts no job.
C15_ExitOnSentinel ==
    /\ [](/\ \A i \in 1..Len(started) : started[i] # StopSignal
          /\ SentinelTaken => wpc = "exited"
          /\ wpc = "exited" => SentinelTaken)
    /\ [][wpc = "exited" => (wpc' = "exited" /\ started' = started /\ finished' = finished)]_vars

\* C15 witness: the worker combined a job, then took the stop signal and exited.
C15_Witness ==
    /\ wpc = "exited"
    /\ Len(finished) >= 1
    /\ queue = <<>>

---------------------------------------------------------------------------
(* Properties of the hand-over to the worker *)

\* C16: queue_combination never blocks its caller: whatever the length of the
\* queue and whether the worker is idle, busy or was never started, the
\* capture job is never left waiting inside put.
C16_PutNeverBlocks == jpc # "putting"

\* C16 witness: a job was queued behind a waiting job while the worker was busy
\* with an earlier one.
C16_Witness ==
    /\ jpc = "done"
    /\ JobPuts = 1
    /\ wpc = "combine"
    /\ Len(queue) = 2

---------------------------------------------------------------------------
(* Properties of the interface check *)

\* C17: when the camera's network interface does not exist,
\* connect_single_gopro returns false at once: the call ends with the check,
\* with no retry and without a status probe, a BLE activation, a Bluetooth
\* reset or a command on the network interface.
C17_NoInterfaceNoWork ==
    ~ifaceFound =>
        /\ cpc = "done"
        /\ cresult = "false"
        /\ probes = 0
        /\ bleCalls = 0
        /\ resetCalls = 0
        /\ netCmds = 0
        /\ attempt = 0
        /\ waits = <<>>

\* C17 witness: a call for gopro3 has returned false on a missing interface.
C17_Witness ==
    /\ cdev = "gopro3"
    /\ ~ifaceFound
    /\ cpc = "done"
    /\ cresult = "false"

---------------------------------------------------------------------------
(* End-to-end scenario B *)

\* The run of scenario B in v4: a finished call in which the activation command
\* failed in the first round and succeeded in the second, the network was
\* associated, and the final check took one probe.
ScenarioB ==
    /\ variant = "v4"
    /\ cpc = "done"
    /\ Len(waits) = 2
    /\ attempt = 1
    /\ exhausted = "none"
    /\ cresult # "raised"
    /\ probes = firstProbes + 1

\* C18 (as stated): in scenario B the initial probe has failed 3 times,
\* the call returns true and exactly 2 activation commands were issued.
C18_ScenarioB_ThreeProbes ==
    ScenarioB => (firstProbes = 3 /\ cresult = "true" /\ bleCalls = 2)

\* C18 (amended): in scenario B the initial probe has failed 5 times, which
\* is every try of test_gopro_connection, the call returns true and exactly
\* 2 activation commands were issued.
C18_ScenarioB_AllProbes ==
    ScenarioB => (firstProbes = ProbeTries /\ cresult = "true" /\ bleCalls = 2)

\* C18 witness: scenario B has run to its end.
C18_Witness ==
    /\ ScenarioB
    /\ cresult = "true"
    /\ probe200
    /\ bleCalls = 2

---------------------------------------------------------------------------
(* Properties of the file names *)

\* C19: the task a capture job puts on the queue names exactly the two local
\* paths that the job's own two downloads wrote, and an output path that
\* carries the job's timestamp; the timestamp is the one read at the start of
\* the job, and both downloaded files carry it too.
C19_TaskOfThisJob ==
    lastTask # NoTask =>
        /\ lastTask.video1 = dlinfo["gopro1"].path
        /\ lastTask.video2 = dlinfo["gopro3"].path
        /\ \A d \in GOPROS :
              /\ dlinfo[d].path # NoPath
              /\ dlinfo[d].local = "kept"
              /\ dlinfo[d].path.stamp = Strftime(recording_time)
        /\ lastTask.output.dir = "Combined"
        /\ lastTask.output.stamp = Strftime(recording_time)
        /\ recording_time = ClockAt(jobs, FALSE)

\* C19 witness: the second job of v3, whose directories may hold the clips of
\* the first, has queued its task.
C19_Witness ==
    /\ variant = "v3"
    /\ jobs = 2
    /\ jpc = "done"
    /\ lastTask # NoTask

\* Both downloads of the current job have written a local file.
BothPaths == \A d \in GOPROS : dlinfo[d].path # NoPath

\* Both downloads of record_and_fetch_dual.py have written a local file.
BothPaths_v2 == \A d \in GOPROS : v2path[d] # NoPath

\* C20 (as stated, for the three revisions): whatever names the cameras give
\* their clips, the same name included, the two local paths differ, and each
\* file name carries the job's timestamp and the name of its device.
C20_NamesEmbedStampAndDevice ==
    /\ BothPaths =>
          /\ dlinfo["gopro1"].path # dlinfo["gopro3"].path
          /\ \A d \in GOPROS : /\ dlinfo[d].path.name = Name(d)
                               /\ dlinfo[d].path.stamp = Strftime(recording_time)
    /\ BothPaths_v2 =>
          /\ v2path["gopro1"] # v2path["gopro3"]
          /\ \A d \in GOPROS : v2path[d].name = Name(d)

\* C20 (amended): whatever names the cameras give their clips, the same name
\* included, the two local paths differ.  In v3 and v4 each file name carries
\* the job's timestamp and the name of its device; in record_and_fetch_dual.py
\* the file name carries neither, and the paths differ by the directory of the
\* device alone.
C20_PathsDistinct ==
    /\ BothPaths =>
          /\ dlinfo["gopro1"].path # dlinfo["gopro3"].path
          /\ \A d \in GOPROS : /\ dlinfo[d].path.name = Name(d)
                               /\ dlinfo[d].path.stamp = Strftime(recording_time)
    /\ BothPaths_v2 =>
          /\ v2path["gopro1"] # v2path["gopro3"]
          /\ \A d \in GOPROS : v2path[d].dir = Subdir(d) /\ v2path[d].name = ""

\* C20 witness: both cameras gave their clip the same name, and both
\* downloads of the job wrote their file.
C20_Witness ==
    /\ latest["gopro1"] = latest["gopro3"]
    /\ BothPaths
    /\ jpc = "done"
    /\ dlinfo["gopro1"].path.remote = dlinfo["gopro3"].path.remote

---------------------------------------------------------------------------
(* Properties of the free-space floor *)

\* The download task of device d found less than 0.5 GB free and returned.
SpaceAbort(d) == dlinfo[d].ran /\ ~dlinfo[d].space

\* C21: a download task that finds the free space below the floor ends
\* without a transfer and without a delete on the camera, and its device counts
\* as failed; the job is not aborted, and the task of the other device is left
\* as it was, to run or with the result it had.
C21_SpaceFloorAbortsOneDownload ==
    \A d \in GOPROS :
        SpaceAbort(d) =>
            /\ dl[d] = "fail"
            /\ d \notin downloaded_files
            /\ ~dlinfo[d].transfer
            /\ ~dlinfo[d].deleted
            /\ dlinfo[d].path = NoPath
            /\ dlinfo[d].local = "none"
            /\ jpc \in {"download", "done"}
            /\ dlCmds <= Cardinality({e \in GOPROS : dlinfo[e].ran /\ dlinfo[e].space})
            /\ \A e \in GOPROS \ {d} :
                  \/ dl[e] \in {"todo", "nofile"} /\ ~dlinfo[e].ran
                  \/ dl[e] \in {"ok", "fail"} /\ dlinfo[e].ran

\* C21 witness: gopro1 was stopped by the floor, gopro3 downloaded its clip,
\* and the job ran to its end.
C21_Witness ==
    /\ SpaceAbort("gopro1")
    /\ dl["gopro3"] = "ok"
    /\ dlinfo["gopro3"].deleted
    /\ jpc = "done"

---------------------------------------------------------------------------
(* Properties of the startup *)

\* The process has ended: sys.exit(1), or an exception nothing caught.
ProcessEnded == mpc \in {"exited", "terminated"}

\* connect_all_gopros has gone through both cameras and returned.
FullAttemptDone == calls = Cardinality(GOPROS) /\ pending = <<>> /\ cpc = "idle"

\* C22: at startup the process ends only after a full connection attempt that
\* left no camera reachable; with a camera reachable after the attempt it is
\* in the trigger loop.
C22_ExitIffNoneReachable ==
    /\ ProcessEnded => (FullAttemptDone /\ \A d \in GOPROS : ~httpUp[d])
    /\ (FullAttemptDone /\ mpc \notin {"startcheck"} /\ \E d \in GOPROS : httpUp[d])
          => mpc = "poll"

---------------------------------------------------------------------------
(* Properties of the forced quit *)

\* C23 (as stated, for both revisions): after a second interrupt during the
\* wait for the queue, main waits no more, neither on the queue nor on the
\* worker.
C23_SecondInterruptExitsAtOnce == forced => sdpc \notin {"wait", "join"}

\* C23 (amended): a second interrupt ends the wait for the queue at once,
\* whatever work is pending.  In v4 the process ends there, with no stop
\* signal and no join.  In v3 main goes on to stop_combination_worker: with a
\* live worker it puts the stop signal and joins the worker, for 5 s at most,
\* before it exits.
C23_SecondInterruptEndsWait ==
    forced =>
        /\ sdpc # "wait"
        /\ ~obsElapsed
        /\ variant = "v4" => (sdpc = "exited" /\ ~sentinelPut)
        /\ variant = "v3" => sdpc \in {"stop", "join", "exited"}
        /\ sdpc = "join" => (variant = "v3" /\ sentinelPut /\ wpc # "off")

\* C23 witness: v3, forced quit with a job waiting and the worker busy: main
\* is in the join behind the stop signal.
C23_Witness ==
    /\ forced
    /\ variant = "v3"
    /\ sdpc = "join"
    /\ wpc = "combine"
    /\ Len(queue) = 2

\* C24: activate_gopro_wifi returns true only after a scan has seen the device's
\* SSID broadcasting, never on the exit status of the command alone; and a
\* round whose command reported success while none of the verification polls
\* found the broadcast does not end the activation: the loop goes on to the
\* next attempt (in the last two rounds the non-interactive command is tried
\* first and returns true only on a scan of its own; after the last round the
\* function returns false).
ActivationReturnedTrue == variant = "v4" /\ cpc \in {"setup", "connect", "probe2"}

SoftFailureRound == variant = "v4" /\ cpc = "attempt" /\ softFail'

C24_TrueOnlyAfterScan ==
    /\ [](ActivationReturnedTrue => ssidSeen)
    /\ [][SoftFailureRound =>
            \/ cpc' = "attempt" /\ attempt' = attempt + 1 /\ cresult' = "none"
            \/ attempt >= max_attempts - 2 /\ cpc' = "setup" /\ ssidSeen'
            \/ attempt = max_attempts - 1 /\ cpc' = "done" /\ cresult' = "false"]_vars

C24_Witness ==
    /\ variant = "v4"
    /\ cpc = "setup"
    /\ ssidSeen
    /\ softFail
    /\ attempt = max_attempts - 2
    /\ bleCalls = attempt + 2

\* C25: within one capture job no download task exists before the record
\* tasks of both devices have finished (returned or failed), and the decision
\* to queue a combination is taken only after every download task has
\* finished; between the two downloads no order is imposed.
DownloadPhaseBegun == \E d \in GOPROS : dl[d] # "none" \/ dlinfo[d].ran

EnqueueDecided == jpc \in {"putting", "done"}

C25_PhasesInOrder ==
    /\ DownloadPhaseBegun => \A d \in GOPROS : rec[d] \in {"ok", "fail"}
    /\ EnqueueDecided => \A d \in GOPROS : dl[d] \in {"ok", "fail", "nofile"}
    /\ (jpc = "record") => \A d \in GOPROS : dl[d] = "none" /\ ~dlinfo[d].ran
    /\ (jpc = "download") => enq = 0

C25_Witness ==
    /\ jpc = "download"
    /\ rec["gopro3"] = "fail"
    /\ rec["gopro1"] = "ok"
    /\ dl["gopro1"] = "ok"
    /\ dl["gopro3"] = "todo"

\* C26: for every device of a capture, a stop command is sent only after that
\* device's own start command succeeded, and every device whose start
\* succeeded is sent a stop command.
SecondCommandSent(i) == Len(trig[i]) >= 2

RecordPhaseOver == kpc \in {"fetch1", "fetch2"}

C26_StopOnlyAfterOwnStart ==
    \A i \in Interfaces :
        /\ SecondCommandSent(i) => trig[i][1].ok
        /\ (RecordPhaseOver /\ trig[i][1].ok) =>
               (SecondCommandSent(i) /\ trig[i][2].p = ShutterStop)

\* C27: in the record phase the failure of one device's start or stop command
\* neither stops nor changes the record task of the other device, which can
\* still take its own next step; and when the phase is over the job holds one
\* result, success or failure, for each device.
OneResultEach == \A d \in GOPROS : rec[d] \in {"ok", "fail"}

C27_RecordFailureIsolated ==
    /\ [](\A d \in GOPROS : \A e \in GOPROS \ {d} :
             (jpc = "record" /\ rec[d] = "fail") =>
                 /\ rec[e] = "todo" => ENABLED record_video_start(e)
                 /\ rec[e] = "holding" => ENABLED record_video_stop(e))
    /\ []((jpc \in {"download", "putting"} \/ (jpc = "done" /\ jobs > 0)) => OneResultEach)
    /\ [][\A d \in GOPROS : \A e \in GOPROS \ {d} :
             (jpc = "record" /\ rec'[d] = "fail" /\ rec[d] # "fail") => rec'[e] = rec[e]]_vars

C27_Witness ==
    /\ jpc = "record"
    /\ rec["gopro1"] = "fail"
    /\ rec["gopro3"] = "ok"
    /\ shutterCmds = 3

\* C28: the two devices are connected one after the other: the procedure of
\* the second device (gopro1) starts only after the procedure of the first
\* (gopro3) has returned, with whatever result, so that at no time two
\* connection procedures, or their adapter resets, are in progress.
ProcedureInProgress == cpc \notin {"idle", "done"}

C28_ConnectedSequentially ==
    /\ [](ProcedureInProgress =>
            (mpc = "seqcall" /\ pending # <<>> /\ cdev = Head(pending)))
    /\ [](cdev = "gopro1" => (calls = 2 /\ pending = <<"gopro1">>))
    /\ [][(mpc = "seqcall" /\ mpc' # "seqcall") =>
            (cresult \in {"true", "false", "raised"} /\ ~ProcedureInProgress)]_vars
    /\ [][(calls' # calls) =>
            (cpc = "idle" /\ cresult = "none" /\ resetCalls = 0 /\ bleCalls = 0)]_vars

C28_Witness ==
    /\ mpc = "seqcall"
    /\ cdev = "gopro1"
    /\ ProcedureInProgress
    /\ ~results
    /\ bleCalls > 0

\* C29: after one or more executions of the profile step for a device, from
\* an absent, empty or populated profile, the profile exists and holds exactly
\* one network block of the device's network.
StepHasRun(d) == runs[d] > 0

C29_ProfileHasOneBlock ==
    \A d \in GOPROS :
        StepHasRun(d) => (wpa_conf[d].exists /\ wpa_conf[d].blocks = 1)

\* C30: within one call of connect_single_gopro the stages follow each other
\* in the order interface check, HTTP probe, activation, association, final
\* probe; association begins only after the activation returned true; no
\* stage is entered again once a later one has begun; and a failure at any
\* stage ends the call with the result false.
StageRank(pc) ==
    CASE pc = "idle" -> 0
      [] pc = "probe1" -> 1
      [] pc \in {"activate", "attempt", "v3activate"} -> 2
      [] pc \in {"setup", "connect", "v3associate"} -> 3
      [] pc = "probe2" -> 4
      [] pc = "done" -> 5

StagesForward ==
    [][cpc' # "idle" => StageRank(cpc') >= StageRank(cpc)]_vars

AssociationAfterActivation ==
    /\ (variant = "v4" /\ cpc \in {"setup", "connect"}) => ssidSeen
    /\ cpc = "v3associate" => bleCalls > 0

C30_StagesForwardFailureFalse ==
    /\ StagesForward
    /\ []AssociationAfterActivation
    /\ [](cpc = "done" => cresult \in {"true", "false"})
    /\ []((cpc = "done" /\ cresult = "true") => probe200)

\* C31: after a round that was not confirmed a Bluetooth reset is attempted
\* exactly when the failure text warrants it (timeout text: from the third
\* attempt on; connection refused / no route and device not found / not
\* available: always; any other text: from the second attempt on; timeout
\* text first when several match), fewer than two resets have succeeded and
\* the attempt is not the last one.
RoundRan == cpc = "attempt" /\ lastRound' # lastRound

PrimaryConfirmed(r) == r.ble /\ r.seenAt > 0

Warranted(e, a) ==
    CASE e.timeout -> a + 1 >= 3
      [] ~e.timeout /\ (e.refused \/ e.notfound) -> TRUE
      [] OTHER -> a + 1 >= 2

C31_ResetFollowsCategory ==
    [][(RoundRan /\ ~PrimaryConfirmed(lastRound')) =>
          /\ resetCalls' \in {resetCalls, resetCalls + 1}
          /\ (resetCalls' = resetCalls + 1) <=>
                (/\ Warranted(lastRound'.stderr, attempt)
                 /\ bluetooth_reset_count < ResetCap
                 /\ attempt + 1 < max_attempts)
          /\ (attempt + 1 = max_attempts) => resetCalls' = resetCalls]_vars

C31_Witness ==
    /\ cpc = "attempt"
    /\ attempt = 2
    /\ resetCalls = 0
    /\ lastRound.ran
    /\ lastRound.stderr.timeout
    /\ lastRound.stderr.refused

\* C32: the non-interactive command is issued only in the last two attempts
\* of the loop and only when the primary command of the same attempt was not
\* confirmed; after it the function returns true only if the command
\* reported success and the scan that follows saw the SSID.
AltIssued == bleCalls' = bleCalls + 2

C32_AlternateOnlyAtTheEnd ==
    [][RoundRan =>
          /\ AltIssued =>
                (attempt + 2 >= max_attempts /\ ~PrimaryConfirmed(lastRound'))
          /\ (AltIssued /\ cpc' = "setup") =>
                (lastRound'.alt /\ lastRound'.altSeen /\ ssidSeen')
          /\ (AltIssued /\ lastRound'.alt /\ ~lastRound'.altSeen) =>
                (cpc' # "setup" /\ ~ssidSeen')
          /\ ~AltIssued => bleCalls' = bleCalls + 1]_vars

C32_Witness ==
    /\ cpc = "setup"
    /\ attempt = max_attempts - 1
    /\ lastRound.ran
    /\ ~lastRound.ble
    /\ lastRound.alt
    /\ lastRound.altSeen
    /\ ssidSeen

\* C33: whatever the external commands return, a call of connect_single_gopro
\* ends, and ends with true or false: it runs at most max_attempts activation
\* rounds and at most ProbeTries probes in each of its two probe phases, and
\* while it has not returned its next step can always be taken.
ProcedureStep ==
    /\ \/ test_gopro_connection
       \/ activate_gopro_wifi_start
       \/ activate_gopro_wifi
       \/ setup_wifi_interface
       \/ connect_wifi
       \/ activate_gopro_wifi_ble
       \/ associate_v3
    /\ UNCHANGED <<mainVars, stopVars, camVars>>

CallBounded ==
    /\ attempt <= max_attempts
    /\ Len(waits) <= max_attempts
    /\ bleCalls <= max_attempts + 2
    /\ probeAttempt < ProbeTries
    /\ firstProbes <= ProbeTries
    /\ probes <= 2 * ProbeTries
    /\ (cpc \notin {"idle", "done"}) => ENABLED ProcedureStep

C33_EndsWithTrueOrFalse ==
    /\ CallBounded
    /\ cpc = "done" => cresult \in {"true", "false"}

\* C34: every combination job a capture job has put on the queue is in the
\* end taken off the queue and worked off, with success or failure, provided
\* the worker thread was started (the merge tool was found at startup).
Queued(j) == \E i \in 1..Len(enqueued) : enqueued[i] = j

WorkedOff(j) == \E i \in 1..Len(finished) : finished[i] = j

C34_EveryJobWorkedOff ==
    \A j \in 1..MaxJobs : Queued(j) ~> WorkedOff(j)

C34_EveryJobWorkedOffIfStarted ==
    \A j \in 1..MaxJobs : (Queued(j) /\ wpc # "off") ~> WorkedOff(j)

C34_Witness ==
    /\ Len(enqueued) = 2
    /\ WorkedOff(1)
    /\ WorkedOff(2)
    /\ wpc = "get"
    /\ queue = <<>>
    /\ wresult = "failed"

\* C35: when the shutdown has seen the combination queue empty before its
\* 60 s were over, no job is in work when the process exits: every job the
\* worker has taken off the queue has been finished.
C35_NoJobInWorkAtExit ==
    (sdpc = "exited" /\ obsEmpty /\ ~obsElapsed /\ ~forced)
        => (wpc # "combine" /\ Len(finished) = Len(started))

\* C36: for a device whose record task failed in the current job, no file is
\* transferred from it, none is deleted on it, and the job queues no
\* combination (a queued task holds a clip of each device).
C36_NoClipOfFailedRecord ==
    \A d \in GOPROS :
        rec[d] = "fail" => /\ ~dlinfo[d].transfer
                           /\ ~dlinfo[d].deleted
                           /\ enq = 0

\* C37: after both devices have been connected one after the other, the
\* routing table holds for each device a host route to its address over its
\* own interface.
BothConnected == mpc = "seqdone" /\ results /\ calls = 2

C37_EachDeviceKeepsItsRoute ==
    BothConnected =>
        \A d \in GOPROS : [dst |-> ip(d), dev |-> interface(d)] \in routes

\* C38: at startup with exactly one device reachable, the connection
\* recovery that main begins leaves the reachable device as it is: no
\* teardown takes its association away.
OneReachable == Cardinality({d \in GOPROS : httpUp[d]}) = 1

RecoveryBegins == mpc = "start" /\ mpc' = "startconn"

C38_ReachableDeviceLeftAlone ==
    [][(OneReachable /\ RecoveryBegins) =>
            \A d \in GOPROS : httpUp[d] => httpUp'[d]]_vars

\* C39: a combination job that fails does not end the worker: the job is
\* marked done once and is not started again, the worker is back at get()
\* and takes the next queued item, and it ends only on the stop signal.
Once(seq) == \A i, k \in 1..Len(seq) : seq[i] = seq[k] => i = k

JobEnds == wpc = "combine" /\ wpc' # "combine"

WorkerEnds == wpc # "exited" /\ wpc' = "exited"

C39_FailedJobKeepsWorker ==
    /\ [](Once(started) /\ Once(finished))
    /\ []((wpc = "get" /\ queue # <<>>) => ENABLED WorkerStep)
    /\ [][JobEnds => (wpc' = "get" /\ finished' = Append(finished, wjob))]_vars
    /\ [][WorkerEnds => (wpc = "get" /\ queue # <<>> /\ Head(queue) = StopSignal)]_vars

\* C39 witness: a job has just failed, the worker is alive and the next job
\* waits on the queue.
C39_Witness ==
    /\ wresult = "failed"
    /\ wpc = "get"
    /\ Len(finished) = 1
    /\ queue # <<>>
    /\ Head(queue) # StopSignal

====
